---- MODULE Spec2Model ----
(***************************************************************************)
(* Multi-modal analysis pipeline: MultiModalAnalyzer and the video, audio  *)
(* and text processors it composes.                                        *)
(*                                                                         *)
(* Numbers.  Confidence values are Python floats in [0,1].  They are       *)
(* modelled as exact integers in units of 1/ONE; ONE is divisible by every *)
(* divisor the modelled computations use (group sizes, frame counts,       *)
(* weight sums, 10, 100), so every division below is exact.                *)
(*                                                                         *)
(* Strings.  A string is a tuple of one-character strings, so that         *)
(* lower(), strip() and split() are computed, not assumed.                 *)
(***************************************************************************)
EXTENDS Integers, Sequences, FiniteSets, TLC

VARIABLES
    pc,                 \* position in the running operation
    video_file,         \* argument of process_complete_content / process_video
    audio_file,         \* argument of process_complete_content / process_audio
    text_content,       \* argument of process_complete_content
    text_analysis,      \* local of process_complete_content
    video_analysis,     \* local of process_complete_content
    audio_analysis,     \* local of process_complete_content
    all_entities,       \* local of process_complete_content / argument of _merge_entities
    unique_entities,    \* result of _merge_entities
    integrated_confidence_scores, \* result of _integrate_confidence_scores
    result,             \* what process_complete_content handed to its caller
    disk,               \* temporary files that exist on disk
    created,            \* every temporary file created so far
    ef,                 \* locals of extract_frames
    pv,                 \* locals of process_video
    pa,                 \* locals of process_video_audio / process_audio_file
    calls,              \* sub-pipelines invoked so far, in call order
    entry,              \* the operation the external caller invoked
    exc,                \* the exception in flight, if any
    args                \* the arguments of a helper the caller invoked directly

vars == <<pc, video_file, audio_file, text_content, text_analysis,
          video_analysis, audio_analysis, all_entities, unique_entities,
          integrated_confidence_scores, result, disk, created, ef, pv, pa,
          calls, entry, exc, args>>

\* Python's None, for the variables and fields that hold objects
None == [none |-> TRUE]

\* None where a string is expected
NoString == "None"

\* 1.0 as a confidence value
ONE == 20160000

\* float division; the operands the model uses always divide exactly
Div(a, b) == a \div b

Tenth(n) == Div(ONE, 10) * n
Hundredth(n) == Div(ONE, 100) * n

Min(a, b) == IF a <= b THEN a ELSE b
Max(a, b) == IF a >= b THEN a ELSE b

RECURSIVE SumSeq(_)
SumSeq(s) == IF s = <<>> THEN 0 ELSE Head(s) + SumSeq(Tail(s))

Range(s) == {s[i] : i \in 1..Len(s)}

\* a string literal as a tuple of its characters
Chars(s) == [i \in 1..Len(s) |-> SubSeq(s, i, i)]

\* all tuples over S of length at most n
SeqsUpTo(S, n) == UNION {[1..k -> S] : k \in 0..n}

(***************************************************************************)
(* str.lower(), str.strip(), str.split()                                   *)
(***************************************************************************)
UPPER == <<"A","B","C","D","E","F","G","H","I","J","K","L","M",
           "N","O","P","Q","R","S","T","U","V","W","X","Y","Z">>
LOWER == <<"a","b","c","d","e","f","g","h","i","j","k","l","m",
           "n","o","p","q","r","s","t","u","v","w","x","y","z">>

LowerChar(c) ==
    IF \E i \in 1..Len(UPPER) : UPPER[i] = c
    THEN LOWER[CHOOSE i \in 1..Len(UPPER) : UPPER[i] = c]
    ELSE c

Lower(s) == [i \in 1..Len(s) |-> LowerChar(s[i])]

\* U+00DF, LATIN SMALL LETTER SHARP S: a letter for str.isalpha and \w (Python
\* 3 patterns are Unicode-aware), left as it is by str.lower, and with no
\* single-character upper case (str.upper gives "SS")
SharpS == "U+00DF"

\* str.upper() of one character
UpperChar(c) ==
    IF c = SharpS THEN <<"S", "S">>
    ELSE IF \E i \in 1..Len(LOWER) : LOWER[i] = c
         THEN <<UPPER[CHOOSE i \in 1..Len(LOWER) : LOWER[i] = c]>>
         ELSE <<c>>

\* str.upper()
RECURSIVE Upper(_)
Upper(s) == IF s = <<>> THEN <<>> ELSE UpperChar(Head(s)) \o Upper(Tail(s))

IsSpace(c) == c \in {" ", "\t", "\n"}

RECURSIVE LStrip(_)
LStrip(s) == IF s # <<>> /\ IsSpace(Head(s)) THEN LStrip(Tail(s)) ELSE s

RECURSIVE RStrip(_)
RStrip(s) ==
    IF s # <<>> /\ IsSpace(s[Len(s)]) THEN RStrip(SubSeq(s, 1, Len(s) - 1)) ELSE s

Strip(s) == RStrip(LStrip(s))

\* str.split(): the maximal runs of non-whitespace characters, in order
RECURSIVE SplitFrom(_, _, _)
SplitFrom(s, word, acc) ==
    IF s = <<>>
    THEN IF word = <<>> THEN acc ELSE Append(acc, word)
    ELSE IF IsSpace(Head(s))
         THEN SplitFrom(Tail(s), <<>>, IF word = <<>> THEN acc ELSE Append(acc, word))
         ELSE SplitFrom(Tail(s), Append(word, Head(s)), acc)

Split(s) == SplitFrom(s, <<>>, <<>>)

\* sep.join(parts)
RECURSIVE Join(_, _)
Join(sep, parts) ==
    IF parts = <<>> THEN <<>>
    ELSE IF Len(parts) = 1 THEN parts[1]
    ELSE parts[1] \o sep \o Join(sep, Tail(parts))

(***************************************************************************)
(* Entities (models/analysis.py)                                           *)
(***************************************************************************)
EntityCategory == {"product", "location", "person", "concept", "brand", "event"}
EntitySource == {"caption", "hashtag", "vision", "audio", "ocr"}

Entity(name, category, confidence, source, context) ==
    [name |-> name, category |-> category, confidence |-> confidence,
     source |-> source, context |-> context]

\* key = (entity.name.lower().strip(), entity.category)
MergeKey(e) == <<Strip(Lower(e.name)), e.category>>

\* the keys of entity_groups, in dict insertion order
RECURSIVE GroupKeys(_, _)
GroupKeys(entities, acc) ==
    IF entities = <<>> THEN acc
    ELSE GroupKeys(Tail(entities),
                   IF \E i \in 1..Len(acc) : acc[i] = MergeKey(Head(entities))
                   THEN acc ELSE Append(acc, MergeKey(Head(entities))))

\* entity_groups[key]: the entities of that key, in input order
GroupOf(entities, key) == SelectSeq(entities, LAMBDA e : MergeKey(e) = key)

\* max(group, key=lambda e: e.confidence): the first member of maximal confidence
BestEntity(group) ==
    group[CHOOSE i \in 1..Len(group) :
            /\ \A j \in 1..Len(group) : group[j].confidence <= group[i].confidence
            /\ \A j \in 1..(i-1) : group[j].confidence < group[i].confidence]

\* boost_factor = min(1.2, 1.0 + (len(group) - 1) * 0.1), in tenths
BoostCapTenths == 12
BoostFactorTenths(n) == Min(BoostCapTenths, 10 + (n - 1))

\* merged_confidence = min(1.0, avg_confidence * boost_factor)
MergedConfidenceNoBoost(group) ==
    Min(ONE, Div(SumSeq([i \in 1..Len(group) |-> group[i].confidence]), Len(group)))
MergedConfidence(group) ==
    Min(ONE, Div(SumSeq([i \in 1..Len(group) |-> group[i].confidence])
                    * BoostFactorTenths(Len(group)), Len(group) * 10))

\* contexts = [e.context for e in group if e.context]; "; ".join(contexts[:3])
ContextLimit == 3
MergedContext(group) ==
    LET contexts == SelectSeq([i \in 1..Len(group) |-> group[i].context],
                              LAMBDA c : c # <<>>)
    IN  Join(<<";", " ">>, SubSeq(contexts, 1, Min(ContextLimit, Len(contexts))))

\* every entity rebuilt with the name of its group key, lowercased and trimmed
MergeGroupNamedByKey(group) ==
    Entity(Strip(Lower(group[1].name)), group[1].category,
           MergedConfidence(group), BestEntity(group).source,
           MergedContext(group))

\* one iteration of "for (name, category), group in entity_groups.items()"
MergeGroup(group) ==
    IF Len(group) = 1
    THEN group[1]
    ELSE Entity(BestEntity(group).name, group[1].category,
                MergedConfidence(group), BestEntity(group).source,
                MergedContext(group))

\* list.sort(key=lambda e: e.confidence, reverse=True): stable, descending
RECURSIVE SortByConfidenceUnstable(_)
SortByConfidenceUnstable(s) ==
    IF s = <<>> THEN <<>>
    ELSE LET rest == SortByConfidenceUnstable(SubSeq(s, 1, Len(s) - 1))
             e == s[Len(s)]
             before == SelectSeq(rest, LAMBDA x : x.confidence > e.confidence)
             after == SelectSeq(rest, LAMBDA x : x.confidence <= e.confidence)
         IN  before \o <<e>> \o after
\* the sort with reverse=True left out: ascending confidence
RECURSIVE SortByConfidenceAscending(_)
SortByConfidenceAscending(s) ==
    IF s = <<>> THEN <<>>
    ELSE LET rest == SortByConfidenceAscending(SubSeq(s, 1, Len(s) - 1))
             e == s[Len(s)]
             before == SelectSeq(rest, LAMBDA x : x.confidence <= e.confidence)
             after == SelectSeq(rest, LAMBDA x : x.confidence > e.confidence)
         IN  before \o <<e>> \o after

RECURSIVE SortByConfidence(_)
SortByConfidence(s) ==
    IF s = <<>> THEN <<>>
    ELSE LET rest == SortByConfidence(SubSeq(s, 1, Len(s) - 1))
             e == s[Len(s)]
             before == SelectSeq(rest, LAMBDA x : x.confidence >= e.confidence)
             after == SelectSeq(rest, LAMBDA x : x.confidence < e.confidence)
         IN  before \o <<e>> \o after

_merge_entities(entities) ==
    IF entities = <<>> THEN <<>>
    ELSE LET keys == GroupKeys(entities, <<>>)
             merged_entities ==
                 [i \in 1..Len(keys) |-> MergeGroup(GroupOf(entities, keys[i]))]
         IN  SortByConfidence(merged_entities)

(***************************************************************************)
(* Exceptions and temporary files                                          *)
(***************************************************************************)
Exception(type, msg) == [type |-> type, msg |-> msg]

Returned(v) == [kind |-> "returned", value |-> v]
Raised(e) == [kind |-> "raised", exc |-> e]

\* tempfile.NamedTemporaryFile(suffix=..., delete=False): a fresh path
TempFile(suffix) == [suffix |-> suffix, id |-> Cardinality(created) + 1]

ContentId == "c1"

(***************************************************************************)
(* VideoProcessor (analysis/video_processor.py)                            *)
(***************************************************************************)
\* self.max_frames
DefaultMaxFrames == 10

\* frame_step with the recomputed step rounded up
FrameStepRoundUp(fps, total_frames, max_frames) ==
    IF fps > 0 /\ total_frames > 0 /\ max_frames > 0
    THEN IF total_frames > max_frames * Max(1, fps)
         THEN total_frames \div max_frames + 1
         ELSE Max(1, fps)
    ELSE 1

\* the frame_step of extract_frames; self.frame_interval = 1.0
FrameStep(fps, total_frames, max_frames) ==
    IF fps > 0 /\ total_frames > 0 /\ max_frames > 0
    THEN IF total_frames > max_frames * Max(1, fps)
         THEN total_frames \div max_frames
         ELSE Max(1, fps)
    ELSE 1

ImageFrame(file_path, frame_count, fps) ==
    [file_path |-> file_path,
     timestamp |-> IF fps > 0 THEN <<frame_count, fps>> ELSE <<0, 1>>]

MsgVideoNotFound == Chars("Video file not found: v.mp4")
MsgCouldNotOpen == Chars("Frame extraction failed: Could not open video file: v.mp4")
MsgDecodeError == Chars("Frame extraction failed: decode error")

\* what analyze_frame_with_gpt4v can return for a frame: a parsed model
\* response (_parse_gpt4v_response: confidence in [0.1, 1.0], the response
\* text as description) or, when the call fails, the placeholder of its
\* except branch.  It never raises.
\* the placeholder of a failed analysis carrying a non-zero confidence
FramePlaceholderHalfConfidence(msg) ==
    [objects |-> {}, text_overlays |-> {},
     scene_description |-> Chars("Analysis failed: ") \o msg,
     confidence |-> Tenth(5)]

FramePlaceholder(msg) ==
    [objects |-> {}, text_overlays |-> {},
     scene_description |-> Chars("Analysis failed: ") \o msg,
     confidence |-> 0]

ParsedResponses ==
    { [objects |-> {Chars("Pizza")}, text_overlays |-> {Chars("menu")},
       scene_description |-> Chars("objects: pizza clearly visible; text: menu"),
       confidence |-> ONE],
      [objects |-> {Chars("Table")}, text_overlays |-> {},
       scene_description |-> Chars("  an item on a table, hard to say more  "),
       confidence |-> Tenth(7)],
      [objects |-> {}, text_overlays |-> {},
       scene_description |-> Chars("   nothing   "),
       confidence |-> Tenth(4)] }

FrameAnalyses ==
    ParsedResponses \cup {FramePlaceholder(Chars("timeout")), FramePlaceholder(<<>>)}

FrameKey(i) == "frame_" \o ToString(i)

Mean(s) == Div(SumSeq(s), Len(s))

\* the weights of _calculate_video_confidence_scores, in hundredths
VideoWeights ==
    [frame_extraction |-> 10, analysis_success_rate |-> 20,
     object_detection |-> 30, text_recognition |-> 20, scene_analysis |-> 20]

VideoComponents == DOMAIN VideoWeights

RECURSIVE WeightedSum(_, _, _)
WeightedSum(scores, weights, keys) ==
    IF keys = {} THEN 0
    ELSE LET k == CHOOSE x \in keys : TRUE
         IN  scores[k] * weights[k] + WeightedSum(scores, weights, keys \ {k})

\* scene descriptions longer than this many characters count as good
GoodDescriptionLen == 20

_calculate_video_confidence_scores(frames, frame_analyses, objects, text_overlays, scene_descriptions, successful_analyses) ==
    LET n == Len(frames)
        m == Len(frame_analyses)
        components ==
            [frame_extraction |-> IF n > 0 THEN ONE ELSE 0,
             analysis_success_rate |->
                 IF n > 0 THEN Div(ONE * successful_analyses, n) ELSE 0,
             object_detection |->
                 IF m > 0
                 THEN Mean([i \in 1..m |->
                        IF frame_analyses[i].objects # {}
                        THEN frame_analyses[i].confidence
                        ELSE Div(frame_analyses[i].confidence, 2)])
                 ELSE 0,
             text_recognition |->
                 IF m > 0
                 THEN Mean([i \in 1..m |->
                        IF frame_analyses[i].text_overlays # {}
                        THEN frame_analyses[i].confidence
                        ELSE Div(frame_analyses[i].confidence * 8, 10)])
                 ELSE 0,
             scene_analysis |->
                 IF scene_descriptions # <<>>
                 THEN Mean([i \in 1..Len(scene_descriptions) |->
                        IF Len(Strip(scene_descriptions[i])) > GoodDescriptionLen
                        THEN IF i <= m THEN frame_analyses[i].confidence
                                       ELSE Div(ONE, 2)
                        ELSE Tenth(3)])
                 ELSE 0]
        overall == Div(WeightedSum(components, VideoWeights, VideoComponents), 100)
    IN  [k \in {FrameKey(i - 1) : i \in 1..m} |->
            frame_analyses[CHOOSE i \in 1..m : FrameKey(i - 1) = k].confidence]
        @@ ("overall" :> overall) @@ components

VideoAnalysis(frame_count, detected_objects, text_overlays, scene_descriptions, confidence_scores) ==
    [content_id |-> "", frame_count |-> frame_count,
     detected_objects |-> detected_objects, text_overlays |-> text_overlays,
     scene_descriptions |-> scene_descriptions,
     confidence_scores |-> confidence_scores]

\* the no-frames result without its description
NoFramesAnalysisNoDescription ==
    VideoAnalysis(0, {}, {}, <<>>,
                  [overall |-> 0, frame_extraction |-> 0, object_detection |-> 0,
                   text_recognition |-> 0, scene_analysis |-> 0])

\* the result of process_video when extract_frames returned no frame
NoFramesAnalysis ==
    VideoAnalysis(0, {}, {}, <<Chars("No frames could be extracted")>>,
                  [overall |-> 0, frame_extraction |-> 0, object_detection |-> 0,
                   text_recognition |-> 0, scene_analysis |-> 0])

(***************************************************************************)
(* AudioProcessor (analysis/audio_processor.py)                            *)
(***************************************************************************)
AudioFile(file_path, exists, supported, too_large) ==
    [file_path |-> file_path, exists |-> exists, supported |-> supported,
     too_large |-> too_large]

AudioTranscription(transcript, segments, language, confidence) ==
    [content_id |-> "", transcript |-> transcript, segments |-> segments,
     language |-> language, confidence |-> confidence]

MsgAudioNotFound == Chars("Audio file not found: a.xyz")
MsgTooLarge == Chars("Audio file too large (30.0MB). Maximum size is 25MB")
MsgApiError == Chars("API Error")
MsgFFmpeg == Chars("FFmpeg error during audio extraction: invalid data")
MsgNoAudioStream == Chars("Audio extraction failed: No audio stream found in extracted file")
MsgConversion == Chars("Audio conversion failed: ffmpeg error")

TranscriptionFailed(msg) ==
    AudioTranscription(Chars("Transcription failed: ") \o msg, <<>>, NoString, 0)

AudioProcessingFailed(msg) ==
    AudioTranscription(Chars("Audio processing failed: ") \o msg, <<>>, NoString, 0)

\* the avg_logprob values a segment of the transcription response can carry, in tenths
LogProbs == {-60, -25, 0}

\* the longest segment list of a modelled transcription response
MaxSegments == 2

\* verbose_json responses of the transcription backend
WhisperResponses ==
    [text : {<<>>, Chars(" hi "), Chars("We ordered PIZZA here")},
     language : {"en"},
     segments : SeqsUpTo(LogProbs, MaxSegments)]

\* a transcript longer than this many characters counts as content
ThinTranscriptLen == 10

\* the heuristic without its clamp to [0, 1]
TranscriptionConfidenceUnclamped(transcript, segments) ==
    IF segments # <<>>
    THEN Div(SumSeq(segments) * Div(ONE, 50), Len(segments)) + ONE
    ELSE IF Len(Strip(transcript)) > ThinTranscriptLen THEN Tenth(8) ELSE Tenth(5)

\* the confidence heuristic of transcribe_audio:
\* max(0.0, min(1.0, (avg_confidence + 5) / 5)) over the segments, else by length
TranscriptionConfidence(transcript, segments) ==
    IF segments # <<>>
    THEN Max(0, Min(ONE, Div(SumSeq(segments) * Div(ONE, 50), Len(segments)) + ONE))
    ELSE IF Len(Strip(transcript)) > ThinTranscriptLen THEN Tenth(8) ELSE Tenth(5)

\* transcribe_audio with the size check placed before the try block
transcribe_audioSizeCheckOutsideTry(audio) ==
    IF ~audio.exists
    THEN {Raised(Exception("FileNotFoundError", MsgAudioNotFound))}
    ELSE IF audio.too_large
    THEN {Raised(Exception("ValueError", MsgTooLarge))}
    ELSE {Returned(TranscriptionFailed(MsgApiError))}
         \cup {Returned(AudioTranscription(r.text, r.segments, r.language,
                            TranscriptionConfidence(r.text, r.segments)))
               : r \in WhisperResponses}

\* every outcome of transcribe_audio(audio_file)
transcribe_audio(audio) ==
    IF ~audio.exists
    THEN {Raised(Exception("FileNotFoundError", MsgAudioNotFound))}
    ELSE IF audio.too_large
    THEN {Returned(TranscriptionFailed(MsgTooLarge))}
    ELSE {Returned(TranscriptionFailed(MsgApiError))}
         \cup {Returned(AudioTranscription(r.text, r.segments, r.language,
                            TranscriptionConfidence(r.text, r.segments)))
               : r \in WhisperResponses}

(***************************************************************************)
(* TextProcessor (analysis/text_processor.py)                              *)
(***************************************************************************)
DIGITS == {"0","1","2","3","4","5","6","7","8","9"}

IsAlpha(c) == c \in Range(UPPER) \cup Range(LOWER) \cup {SharpS}

\* \w of the regular expressions
IsWordChar(c) == IsAlpha(c) \/ c \in DIGITS \/ c = "_"

\* the longest prefix of s made of word characters
RECURSIVE WordPrefix(_)
WordPrefix(s) ==
    IF s # <<>> /\ IsWordChar(Head(s)) THEN <<Head(s)>> \o WordPrefix(Tail(s)) ELSE <<>>

\* first-seen order, duplicates dropped
RECURSIVE Unique(_, _)
Unique(s, acc) ==
    IF s = <<>> THEN acc
    ELSE Unique(Tail(s), IF Head(s) \in Range(acc) THEN acc ELSE Append(acc, Head(s)))

\* re.findall(r'#(\w+)', s)
RECURSIVE FindHashtags(_)
FindHashtags(s) ==
    IF s = <<>> THEN <<>>
    ELSE IF Head(s) = "#" /\ WordPrefix(Tail(s)) # <<>>
         THEN <<WordPrefix(Tail(s))>>
              \o FindHashtags(SubSeq(s, 2 + Len(WordPrefix(Tail(s))), Len(s)))
         ELSE FindHashtags(Tail(s))

extract_hashtags(text) ==
    IF text = <<>> THEN <<>> ELSE Unique(FindHashtags(Lower(text)), <<>>)

\* re.sub(r'#\w+', '', s)
RECURSIVE RemoveHashtags(_)
RemoveHashtags(s) ==
    IF s = <<>> THEN <<>>
    ELSE IF Head(s) = "#" /\ WordPrefix(Tail(s)) # <<>>
         THEN RemoveHashtags(SubSeq(s, 2 + Len(WordPrefix(Tail(s))), Len(s)))
         ELSE <<Head(s)>> \o RemoveHashtags(Tail(s))

\* self.hashtag_categories, in dict order
hashtag_categories ==
    << [name |-> "food", keywords |-> <<"food", "foodie", "recipe", "cooking",
            "restaurant", "cafe", "dinner", "lunch", "breakfast">>],
       [name |-> "travel", keywords |-> <<"travel", "vacation", "trip", "explore",
            "wanderlust", "adventure", "destination">>],
       [name |-> "fashion", keywords |-> <<"fashion", "style", "outfit", "ootd",
            "clothing", "accessories", "shoes">>],
       [name |-> "beauty", keywords |-> <<"beauty", "makeup", "skincare",
            "cosmetics", "hair", "nails">>],
       [name |-> "fitness", keywords |-> <<"fitness", "workout", "gym", "health",
            "exercise", "training", "yoga">>],
       [name |-> "lifestyle", keywords |-> <<"lifestyle", "daily", "life", "home",
            "decor", "inspiration">>],
       [name |-> "business", keywords |-> <<"business", "entrepreneur", "startup",
            "work", "career", "professional">>],
       [name |-> "technology", keywords |-> <<"tech", "technology", "gadget", "app",
            "software", "digital">>],
       [name |-> "art", keywords |-> <<"art", "artist", "creative", "design",
            "photography", "drawing", "painting">>],
       [name |-> "music", keywords |-> <<"music", "song", "artist", "concert",
            "album", "musician">>],
       [name |-> "education", keywords |-> <<"education", "learning", "study",
            "school", "university", "knowledge">>],
       [name |-> "entertainment", keywords |-> <<"entertainment", "movie", "tv",
            "show", "celebrity", "fun">>] >>

\* Python's "a in b" on strings
IsSubstring(a, b) ==
    \E i \in 0..(Len(b) - Len(a)) : SubSeq(b, i + 1, i + Len(a)) = a

\* "keyword in hashtag or hashtag in keyword" for some keyword of the category
MatchesCategory(hashtag, category) ==
    \E k \in 1..Len(category.keywords) :
        \/ IsSubstring(Chars(category.keywords[k]), hashtag)
        \/ IsSubstring(hashtag, Chars(category.keywords[k]))

\* categorize_hashtags filing each hashtag under its first matching category only
categorize_hashtagsFirstCategoryOnly(hashtags) ==
    LET first(h, i) == /\ MatchesCategory(h, hashtag_categories[i])
                       /\ \A j \in 1..(i - 1) : ~MatchesCategory(h, hashtag_categories[j])
        matching(i) == SelectSeq(hashtags, LAMBDA h : first(h, i))
        named == {i \in 1..Len(hashtag_categories) : matching(i) # <<>>}
        categorized == [n \in {hashtag_categories[i].name : i \in named} |->
                          matching(CHOOSE i \in named : hashtag_categories[i].name = n)]
        uncategorized == SelectSeq(hashtags,
                            LAMBDA h : \A i \in 1..Len(hashtag_categories) :
                                          ~MatchesCategory(h, hashtag_categories[i]))
    IN  IF hashtags = <<>> THEN <<>>
        ELSE IF uncategorized = <<>> THEN categorized
        ELSE categorized @@ ("other" :> uncategorized)

\* categorize_hashtags: category name -> matching hashtags in input order,
\* plus "other" for the hashtags no category matched; empty lists are left out
categorize_hashtags(hashtags) ==
    LET matching(c) == SelectSeq(hashtags, LAMBDA h : MatchesCategory(h, c))
        named == {i \in 1..Len(hashtag_categories) :
                    matching(hashtag_categories[i]) # <<>>}
        categorized == [n \in {hashtag_categories[i].name : i \in named} |->
                          matching(hashtag_categories[
                              CHOOSE i \in named : hashtag_categories[i].name = n])]
        uncategorized == SelectSeq(hashtags,
                            LAMBDA h : \A i \in named :
                                          h \notin Range(matching(hashtag_categories[i])))
    IN  IF hashtags = <<>> THEN <<>>
        ELSE IF uncategorized = <<>> THEN categorized
        ELSE categorized @@ ("other" :> uncategorized)

\* a decoded JSON value: a string, a number (in units of 1/ONE) or null
JString(s) == [type |-> "string", value |-> s]
JNumber(n) == [type |-> "number", value |-> n]
JNull == [type |-> "null"]

\* float(v): the number itself; a string of the form "d.d" parsed, any other
\* string a ValueError; None a TypeError
FloatOf(v) ==
    IF v.type = "number" THEN [kind |-> "ok", value |-> v.value]
    ELSE IF v.type = "string"
         THEN IF /\ Len(v.value) = 3
                 /\ v.value[1] \in DIGITS /\ v.value[2] = "." /\ v.value[3] \in DIGITS
              THEN [kind |-> "ok",
                    value |-> Tenth(10 * (CHOOSE d \in 0..9 : ToString(d) = v.value[1])
                                    + (CHOOSE d \in 0..9 : ToString(d) = v.value[3]))]
              ELSE [kind |-> "ValueError"]
         ELSE [kind |-> "TypeError"]

\* lines 221-228
category_map ==
    << [key |-> Chars("PRODUCT"), value |-> "product"],
       [key |-> Chars("LOCATION"), value |-> "location"],
       [key |-> Chars("PERSON"), value |-> "person"],
       [key |-> Chars("CONCEPT"), value |-> "concept"],
       [key |-> Chars("BRAND"), value |-> "brand"],
       [key |-> Chars("EVENT"), value |-> "event"] >>

\* the characters of original_text used as a default context
ContextDefaultLen == 100

\* lines 215-247, the body of "for item in entity_data" for one decoded
\* object: an entity to append ("entity"), an item skipped by a continue or
\* by the ValueError/KeyError handler ("skip"), or an exception the inner
\* handler does not catch ("raise": the AttributeError of .upper()/.strip()
\* on a non-string, the TypeError of float(None))
ParseItem(item, source, original_text) ==
    IF ~({"name", "category", "confidence"} \subseteq DOMAIN item)
    THEN [kind |-> "skip"]
    ELSE IF item["category"].type # "string" THEN [kind |-> "raise"]
    ELSE IF ~\E k \in 1..Len(category_map) :
                 category_map[k].key = Upper(item["category"].value)
         THEN [kind |-> "skip"]
    ELSE LET category ==
                 category_map[CHOOSE k \in 1..Len(category_map) :
                     category_map[k].key = Upper(item["category"].value)].value
             confidence == FloatOf(item["confidence"])
             context == IF "context" \in DOMAIN item THEN item["context"]
                        ELSE JString(SubSeq(original_text, 1,
                                 Min(ContextDefaultLen, Len(original_text))))
         IN  IF confidence.kind = "TypeError" THEN [kind |-> "raise"]
             ELSE IF confidence.kind = "ValueError" THEN [kind |-> "skip"]
             ELSE IF confidence.value < Tenth(6) \/ confidence.value > ONE
                  THEN [kind |-> "skip"]
             ELSE IF item["name"].type # "string" THEN [kind |-> "raise"]
             \* Entity(...) validates its fields: a context that is not a
             \* string is a ValidationError, a ValueError
             ELSE IF context.type # "string" THEN [kind |-> "skip"]
             ELSE [kind |-> "entity",
                   entity |-> Entity(Strip(item["name"].value), category,
                                     confidence.value, source, context.value)]

\* the loop over entity_data; an exception leaving the loop body is caught
\* at line 253 and the entities appended so far are returned
RECURSIVE ParseItems(_, _, _, _)
ParseItems(entity_data, source, original_text, entities) ==
    IF entity_data = <<>> THEN entities
    ELSE LET r == ParseItem(Head(entity_data), source, original_text)
         IN  IF r.kind = "raise" THEN entities
             ELSE ParseItems(Tail(entity_data), source, original_text,
                     IF r.kind = "entity" THEN Append(entities, r.entity)
                     ELSE entities)

\* _parse_gpt_entity_response on a response whose bracketed part decodes to
\* the JSON array entity_data
_parse_gpt_entity_response(entity_data, source, original_text) ==
    ParseItems(entity_data, source, original_text, <<>>)

\* str.split('\n'): the pieces between line feeds, empty ones included
RECURSIVE SplitLinesFrom(_, _, _)
SplitLinesFrom(s, line, acc) ==
    IF s = <<>> THEN Append(acc, line)
    ELSE IF Head(s) = "\n" THEN SplitLinesFrom(Tail(s), <<>>, Append(acc, line))
         ELSE SplitLinesFrom(Tail(s), Append(line, Head(s)), acc)

SplitLines(s) == SplitLinesFrom(s, <<>>, <<>>)

\* str.find(c) and str.rfind(c), counted from 0; -1 when c does not occur
Find(s, c) ==
    IF c \in Range(s) THEN (CHOOSE i \in 1..Len(s) : s[i] = c /\ \A j \in 1..(i - 1) : s[j] # c) - 1
    ELSE -1

RFind(s, c) ==
    IF c \in Range(s) THEN (CHOOSE i \in 1..Len(s) : s[i] = c /\ \A j \in (i + 1)..Len(s) : s[j] # c) - 1
    ELSE -1

\* the longest prefix of s made of digits and dots: [0-9.]+ is greedy
RECURSIVE NumberPrefix(_)
NumberPrefix(s) ==
    IF s # <<>> /\ (Head(s) \in DIGITS \/ Head(s) = ".")
    THEN <<Head(s)>> \o NumberPrefix(Tail(s)) ELSE <<>>

\* the pattern word:\s*([^(]+)\s*\(([0-9.]+)\) matched at position i of the
\* line, letters compared without case: the word and a colon, at least one
\* character before the first opening parenthesis, then digits and dots up
\* to a closing parenthesis
MatchesAt(word, line, i) ==
    LET n == Len(word)
        rest == SubSeq(line, i + n + 1, Len(line))
        q == Find(rest, "(") + 1
        after == SubSeq(rest, q + 1, Len(rest))
        number == NumberPrefix(after)
    IN  /\ i + n <= Len(line)
        /\ Lower(SubSeq(line, i, i + n - 1)) = Lower(word)
        /\ line[i + n] = ":"
        /\ q >= 2
        /\ number # <<>>
        /\ Len(number) < Len(after)
        /\ after[Len(number) + 1] = ")"

\* the smallest member of a set of positions
Leftmost(positions) == CHOOSE x \in positions : \A y \in positions : x <= y

\* the groups of the match of the pattern at position i of the line:
\* group(1).upper() (line 294), group(2).strip() (line 295) and group(3)
MatchGroups(word, line, i) ==
    LET rest == SubSeq(line, i + Len(word) + 1, Len(line))
        q == Find(rest, "(") + 1
    IN  [category_str |-> Upper(SubSeq(line, i, i + Len(word) - 1)),
         name |-> Strip(SubSeq(rest, 1, q - 1)),
         number |-> NumberPrefix(SubSeq(rest, q + 1, Len(rest)))]

\* re.search(pattern, line, re.IGNORECASE): the leftmost match; no match is None
Search(word, line) ==
    LET starts == {i \in 1..Len(line) : MatchesAt(word, line, i)}
    IN  IF starts = {} THEN None
        ELSE MatchGroups(word, line, Leftmost(starts))

\* lines 282-289: the words of the six patterns, in the order they are tried
patterns ==
    << Chars("Product"), Chars("Location"), Chars("Brand"),
       Chars("Person"), Chars("Concept"), Chars("Event") >>

\* lines 296-316: what a match with its confidence leads to.  float() raises
\* ValueError on a number such as "1.2.3" and Entity(...) raises a
\* ValidationError on a confidence above 1.0 (models/analysis.py:35); nothing
\* in the function catches them
FallbackEntity(match, confidence, source, original_text) ==
    IF confidence.kind # "ok"
    THEN [kind |-> "raise", exc |-> Exception("ValueError", match.number)]
    ELSE IF confidence.value < Tenth(6) THEN [kind |-> "skip"]
    ELSE IF confidence.value > ONE
         THEN [kind |-> "raise", exc |-> Exception("ValidationError", match.number)]
    ELSE [kind |-> "entity",
          entity |-> Entity(match.name,
              category_map[CHOOSE k \in 1..Len(category_map) :
                  category_map[k].key = match.category_str].value,
              confidence.value, source,
              SubSeq(original_text, 1, Min(ContextDefaultLen, Len(original_text))))]

\* lines 293-296: "if match:" with confidence = float(match.group(3))
FallbackMatch(match, source, original_text) ==
    FallbackEntity(match, FloatOf(JString(match.number)), source, original_text)

\* lines 277-317 for a stripped line: empty lines and comment lines are
\* skipped; the first pattern that matches decides ("break")
FallbackStrippedLine(line, source, original_text) ==
    LET matching == {k \in 1..Len(patterns) : Search(patterns[k], line) # None}
    IN  IF line = <<>> \/ Head(line) = "#" \/ matching = {}
        THEN [kind |-> "skip"]
        ELSE FallbackMatch(Search(patterns[Leftmost(matching)], line),
                           source, original_text)

\* lines 275-317, the body of "for line in lines" for one line
FallbackLine(raw_line, source, original_text) ==
    FallbackStrippedLine(Strip(raw_line), source, original_text)

RECURSIVE FallbackLines(_, _, _, _)
FallbackLines(lines, source, original_text, entities) ==
    IF lines = <<>> THEN Returned(entities)
    ELSE LET r == FallbackLine(Head(lines), source, original_text)
         IN  IF r.kind = "raise" THEN Raised(r.exc)
             ELSE FallbackLines(Tail(lines), source, original_text,
                     IF r.kind = "entity" THEN Append(entities, r.entity)
                     ELSE entities)

\* lines 258-319
_fallback_entity_extraction(response_text, source, original_text) ==
    FallbackLines(SplitLines(response_text), source, original_text, <<>>)

\* json.loads on the bracketed part of a response.  The responses of this
\* model hold no JSON document but the empty array (brackets around nothing
\* but whitespace); every other bracketed part is a JSONDecodeError
JsonLoads(json_text) ==
    IF /\ Len(json_text) >= 2
       /\ Head(json_text) = "[" /\ json_text[Len(json_text)] = "]"
       /\ \A i \in 2..(Len(json_text) - 1) : IsSpace(json_text[i])
    THEN [kind |-> "ok", value |-> <<>>]
    ELSE [kind |-> "JSONDecodeError"]

\* lines 186-256 on the text of a response: the part from the first "[" to
\* the last "]" is decoded when there is one; only a JSONDecodeError leads
\* to the fallback, whose exceptions leave the function (they are raised
\* inside the handler of line 248)
_parse_gpt_entity_response_text(response_text, source, original_text) ==
    LET json_start == Find(response_text, "[")
        json_end == RFind(response_text, "]") + 1
    IN  IF json_start >= 0 /\ json_end > json_start
        THEN LET entity_data ==
                     JsonLoads(SubSeq(response_text, json_start + 1, json_end))
             IN  IF entity_data.kind = "ok"
                 THEN Returned(_parse_gpt_entity_response(
                                   entity_data.value, source, original_text))
                 ELSE _fallback_entity_extraction(response_text, source, original_text)
        ELSE Returned(<<>>)

\* the failure of the chat completion call
BackendError == [kind |-> "error"]

\* the content of the message a chat completion returned
BackendResponse(content) == [kind |-> "response", content |-> content]

\* lines 114-181: extract_entities_with_gpt(text, source) given what the
\* backend answered; every exception ends in the empty list
extract_entities_with_gpt(text, source, backend) ==
    IF Strip(text) = <<>> THEN <<>>
    ELSE IF backend.kind = "error" THEN <<>>
    ELSE LET r == _parse_gpt_entity_response_text(Strip(backend.content), source, text)
         IN  IF r.kind = "raised" THEN <<>> ELSE r.value

stop_words ==
    {"the", "a", "an", "and", "or", "but", "in", "on", "at", "to", "for", "of",
     "with", "by", "is", "are", "was", "were", "be", "been", "being", "have",
     "has", "had", "do", "does", "did", "will", "would", "could", "should", "may",
     "might", "must", "i", "you", "he", "she", "it", "we", "they", "me", "him",
     "her", "us", "them", "my", "your", "his", "its", "our", "their", "this",
     "that", "these", "those", "over"}

\* the keyword list is cut to this many entries
MaxKeywords == 10

\* _extract_keywords: re.sub(r'[^\w\s]', ' ', text.lower()).split(), filtered
_extract_keywords(text) ==
    LET lowered == Lower(text)
        clean_text == [i \in 1..Len(lowered) |->
                         IF IsWordChar(lowered[i]) \/ IsSpace(lowered[i])
                         THEN lowered[i] ELSE " "]
        keywords == SelectSeq(Split(clean_text),
                       LAMBDA w : /\ Len(w) > 3
                                  /\ \A sw \in stop_words : Chars(sw) # w
                                  /\ \A i \in 1..Len(w) : IsAlpha(w[i]))
        unique_keywords == Unique(keywords, <<>>)
    IN  SubSeq(unique_keywords, 1, Min(MaxKeywords, Len(unique_keywords)))

\* a combination that keeps every entity, repeated ones included
DedupEntitiesKeepAll(entities, acc) == acc \o entities

\* "Remove duplicate entities": key = (entity.name.lower(), entity.category),
\* the first entity of each key is kept
RECURSIVE DedupEntities(_, _)
DedupEntities(entities, acc) ==
    IF entities = <<>> THEN acc
    ELSE DedupEntities(Tail(entities),
            IF \E i \in 1..Len(acc) :
                  /\ Lower(acc[i].name) = Lower(Head(entities).name)
                  /\ acc[i].category = Head(entities).category
            THEN acc ELSE Append(acc, Head(entities)))

TextAnalysis(extracted_entities, sentiment, topics, keywords) ==
    [content_id |-> "", extracted_entities |-> extracted_entities,
     sentiment |-> sentiment, topics |-> topics, keywords |-> keywords]

\* the longest entity list one round of model calls returns
MaxGptEntities == 2

\* what extract_entities_with_gpt can return for a source: the entities
\* _parse_gpt_entity_response kept (name stripped, confidence in [0.6, 1.0],
\* source = the source asked for), or nothing when the call failed
GptEntities(source) ==
    IF source = "caption"
    THEN { Entity(Chars("Apple"), "brand", Hundredth(90), "caption", Chars("we love Apple")),
           Entity(Chars("Pizza"), "product", Hundredth(80), "caption", <<>>) }
    ELSE { Entity(Chars("apple"), "brand", Hundredth(70), "hashtag", Chars("#apple")) }

GptEntityLists(source) == SeqsUpTo(GptEntities(source), MaxGptEntities)

\* every TextAnalysis process_text_content(caption) can return
process_text_content(caption) ==
    LET hashtags == extract_hashtags(caption)
        caption_text == Strip(RemoveHashtags(caption))
        blank == Strip(caption) = <<>>
        caption_lists == IF blank \/ caption_text = <<>> THEN {<<>>}
                         ELSE GptEntityLists("caption")
        hashtag_lists == IF hashtags = <<>> THEN {<<>>}
                         ELSE GptEntityLists("hashtag")
        caption_topics == IF blank THEN {} ELSE DOMAIN categorize_hashtags(hashtags)
        hashtag_topics == DOMAIN categorize_hashtags(hashtags)
    IN  { TextAnalysis(
            DedupEntities(
                (IF blank THEN <<>> ELSE DedupEntities(c \o h1, <<>>))
                    \o DedupEntities(h2, <<>>), <<>>),
            NoString,
            caption_topics \cup hashtag_topics,
            IF blank THEN <<>> ELSE _extract_keywords(caption_text))
          : c \in caption_lists, h1 \in hashtag_lists, h2 \in hashtag_lists }

(***************************************************************************)
(* MultiModalAnalyzer (analysis/multimodal.py)                             *)
(***************************************************************************)
\* Python's attribute lookup on a model object
HasAttr(obj, name) == name \in DOMAIN obj

MsgNoConfidenceScores ==
    Chars("'TextAnalysis' object has no attribute 'confidence_scores'")

\* modality_weights, in hundredths
ModalityWeights == [text |-> 40, video |-> 35, audio |-> 25]

\* dict.get(key, default)
Get(d, key, default) == IF key \in DOMAIN d THEN d[key] ELSE default

\* a dict with no key
EmptyDict == [k \in {} |-> 0]

IsFrameKey(key) == Len(key) >= 6 /\ SubSeq(key, 1, 6) = "frame_"

\* the neutral score given whenever the two sets share nothing, as if one were empty
text_video_consistencyNeutralWithoutOverlap(text_entities, video_objects) ==
    IF text_entities \cap video_objects # {}
    THEN Div(ONE * Cardinality(text_entities \cap video_objects),
             Cardinality(text_entities \cup video_objects))
    ELSE Div(ONE, 2)

\* lines 253-258: overlap / total_unique, 0.5 when a set is empty
text_video_consistency(text_entities, video_objects) ==
    IF text_entities # {} /\ video_objects # {}
    THEN Div(ONE * Cardinality(text_entities \cap video_objects),
             Cardinality(text_entities \cup video_objects))
    ELSE Div(ONE, 2)

\* the thin-transcript rule applied to every transcript of 100 characters or less
text_audio_consistencyThinBelowHundred(ta, aa) ==
    IF aa.transcript # <<>> /\ Len(Strip(aa.transcript)) > 100
    THEN LET text_keywords == Range(ta.keywords)
             audio_words == Range(Split(Lower(aa.transcript)))
         IN  IF text_keywords # {} /\ audio_words # {}
             THEN Min(ONE,
                      Div(ONE * Cardinality(text_keywords \cap audio_words),
                          Cardinality(text_keywords)))
             ELSE Div(ONE, 2)
    ELSE Tenth(3)

\* lines 262-273
text_audio_consistency(ta, aa) ==
    IF aa.transcript # <<>> /\ Len(Strip(aa.transcript)) > ThinTranscriptLen
    THEN LET text_keywords == Range(ta.keywords)
             audio_words == Range(Split(Lower(aa.transcript)))
         IN  IF text_keywords # {} /\ audio_words # {}
             THEN Min(ONE,
                      Div(ONE * Cardinality(text_keywords \cap audio_words),
                          Cardinality(text_keywords)))
             ELSE Div(ONE, 2)
    ELSE Tenth(3)

\* the tiers with the middle one given only to video content
video_audio_consistencyVideoOnlyMiddle(has_video_content, has_audio_content) ==
    IF has_video_content /\ has_audio_content THEN Tenth(8)
    ELSE IF has_video_content THEN Tenth(6)
    ELSE Tenth(4)

\* lines 282-287
video_audio_consistency(has_video_content, has_audio_content) ==
    IF has_video_content /\ has_audio_content THEN Tenth(8)
    ELSE IF has_video_content \/ has_audio_content THEN Tenth(6)
    ELSE Tenth(4)

_calculate_cross_modal_consistency(ta, va, aa) ==
    LET text_video ==
            IF ta # None /\ va # None
            THEN "text_video_consistency" :>
                    text_video_consistency(
                        {Lower(e.name) : e \in Range(ta.extracted_entities)},
                        {Lower(o) : o \in va.detected_objects})
            ELSE EmptyDict
        text_audio ==
            IF ta # None /\ aa # None
            THEN "text_audio_consistency" :> text_audio_consistency(ta, aa)
            ELSE EmptyDict
        video_audio ==
            IF va # None /\ aa # None
            THEN "video_audio_consistency" :>
                    video_audio_consistency(
                        va.detected_objects # {} \/ va.text_overlays # {},
                        IF aa.transcript # <<>>
                        THEN Len(Strip(aa.transcript)) > ThinTranscriptLen
                        ELSE FALSE)
            ELSE EmptyDict
    IN  text_video @@ text_audio @@ video_audio

\* lines 213-224: the weighted average over the modalities that are present,
\* each weight divided by the sum of the present weights
WeightedOverallUnnormalised(scores, present) ==
    IF present # {}
    THEN Div(WeightedSum(scores, ModalityWeights, present), 100)
    ELSE 0
\* the average taken only over the modalities that report a positive score
WeightedOverallSkipZero(scores, present) ==
    IF {m \in present : scores[m] > 0} # {}
    THEN Div(WeightedSum(scores, ModalityWeights, {m \in present : scores[m] > 0}),
             WeightedSum([m \in present |-> 1], ModalityWeights,
                         {m \in present : scores[m] > 0}))
    ELSE 0

WeightedOverall(scores, present) ==
    IF present # {}
    THEN Div(WeightedSum(scores, ModalityWeights, present),
             WeightedSum([m \in present |-> 1], ModalityWeights, present))
    ELSE 0

\* _integrate_confidence_scores: Returned(dict), or Raised(exception) when an
\* attribute it reads does not exist
_integrate_confidence_scores(ta, va, aa) ==
    IF ta # None /\ ~HasAttr(ta, "confidence_scores")
    THEN Raised(Exception("AttributeError", MsgNoConfidenceScores))
    ELSE
    LET has_text == ta # None /\ ta.confidence_scores # EmptyDict
        has_video == va # None /\ va.confidence_scores # EmptyDict
        has_audio == aa # None /\ HasAttr(aa, "confidence")
        text_scores ==
            IF has_text
            THEN ("text" :> Get(ta.confidence_scores, "overall", 0))
                 @@ [k \in {"text_" \o key : key \in DOMAIN ta.confidence_scores \ {"overall"}} |->
                        ta.confidence_scores[CHOOSE key \in DOMAIN ta.confidence_scores :
                                                "text_" \o key = k]]
            ELSE EmptyDict
        video_scores ==
            IF has_video
            THEN ("video" :> Get(va.confidence_scores, "overall", 0))
                 @@ [k \in {"video_" \o key :
                              key \in {x \in DOMAIN va.confidence_scores :
                                         x # "overall" /\ ~IsFrameKey(x)}} |->
                        va.confidence_scores[CHOOSE key \in DOMAIN va.confidence_scores :
                                                "video_" \o key = k]]
            ELSE EmptyDict
        audio_scores == IF has_audio THEN "audio" :> aa.confidence ELSE EmptyDict
        integrated_scores == text_scores @@ video_scores @@ audio_scores
        present == {m \in DOMAIN ModalityWeights :
                      \/ m = "text" /\ has_text
                      \/ m = "video" /\ has_video
                      \/ m = "audio" /\ has_audio}
    IN  Returned(_calculate_cross_modal_consistency(ta, va, aa)
                 @@ ("overall" :> WeightedOverall(integrated_scores, present))
                 @@ integrated_scores)

\* Python values held by a dict that pydantic validates
PyFloat(x) == [type |-> "float", value |-> x]
PyStr(x) == [type |-> "str", value |-> x]

PyFloats(d) == [k \in DOMAIN d |-> PyFloat(d[k])]

\* float(s) succeeds on a numeric string (pydantic coerces those)
ParsesAsFloat(s) ==
    /\ Strip(s) # <<>>
    /\ \A i \in 1..Len(Strip(s)) : Strip(s)[i] \in DIGITS \cup {"."}
    /\ Cardinality({i \in 1..Len(Strip(s)) : Strip(s)[i] = "."}) <= 1
    /\ \E i \in 1..Len(Strip(s)) : Strip(s)[i] \in DIGITS

MsgValidation == Chars("1 validation error for ContentAnalysis: confidence_scores.error")

\* ContentAnalysis(...): the model validates confidence_scores as Dict[str, float]
ContentAnalysis(content_id, ta, aa, extracted_entities, confidence_scores) ==
    IF \A k \in DOMAIN confidence_scores :
          \/ confidence_scores[k].type = "float"
          \/ /\ confidence_scores[k].type = "str"
             /\ ParsesAsFloat(confidence_scores[k].value)
    THEN Returned([content_id |-> content_id, text_analysis |-> ta,
                   vision_analysis |-> None, audio_analysis |-> aa,
                   extracted_entities |-> extracted_entities,
                   confidence_scores |-> confidence_scores])
    ELSE Raised(Exception("ValidationError", MsgValidation))

(***************************************************************************)
(* Bounds and inputs                                                       *)
(***************************************************************************)
\* most frames a video handed to process_video has
MaxTotalFrames == 3
\* highest frame rate of a modelled video
MaxFps == 2
\* most frames a video handed to process_complete_content has
MaxContentFrames == 1
\* longest entity list handed to _merge_entities
MaxEntities == 4

VideoFile(exists, openable, total_frames, fps) ==
    [file_path |-> "v.mp4", exists |-> exists, openable |-> openable,
     total_frames |-> total_frames, fps |-> fps]

VideoFiles(max_total) ==
    {VideoFile(FALSE, FALSE, 0, 0), VideoFile(TRUE, FALSE, 0, 0)}
    \cup {VideoFile(TRUE, TRUE, t, f) : t \in 0..max_total, f \in 0..MaxFps}

AudioFiles ==
    {AudioFile("a.xyz", e, s, l) : e \in BOOLEAN, s \in BOOLEAN, l \in BOOLEAN}
    \ {AudioFile("a.xyz", FALSE, s, TRUE) : s \in BOOLEAN}

\* text_content; the empty string also stands for None ("if text_content:")
TextContents ==
    {<<>>, Chars("Great pizza! #food #restaurant"), Chars(" #Apple ")}

NewProcessVideo ==
    [status |-> "running", frames |-> <<>>, i |-> 0, all_objects |-> {},
     all_text_overlays |-> {}, scene_descriptions |-> <<>>,
     confidence_scores |-> EmptyDict, frame_analysis_results |-> <<>>,
     successful_analyses |-> 0]

NewAudio(audio) == [status |-> "running", audio_file |-> audio]

Idle ==
    /\ text_analysis = None
    /\ video_analysis = None
    /\ audio_analysis = None
    /\ all_entities = <<>>
    /\ unique_entities = <<>>
    /\ integrated_confidence_scores = EmptyDict
    /\ result = None
    /\ disk = {}
    /\ created = {}
    /\ ef = None
    /\ calls = <<>>
    /\ exc = None
    /\ args = None

InitContent ==
    /\ entry = "process_complete_content"
    /\ pc = "pcc_text"
    /\ video_file \in {None} \cup VideoFiles(MaxContentFrames)
    /\ audio_file \in {None} \cup AudioFiles
    /\ text_content \in TextContents
    /\ pv = None
    /\ pa = None
    /\ Idle

InitVideo ==
    /\ entry = "process_video"
    /\ pc = "extract_frames"
    /\ video_file \in VideoFiles(MaxTotalFrames)
    /\ audio_file = None
    /\ text_content = <<>>
    /\ pv = NewProcessVideo
    /\ pa = None
    /\ Idle

InitVideoAudio ==
    /\ entry = "process_video_audio"
    /\ pc = "extract_audio_from_video"
    /\ video_file \in VideoFiles(MaxTotalFrames)
    /\ audio_file = None
    /\ text_content = <<>>
    /\ pv = None
    /\ pa = NewAudio(None)
    /\ Idle

\* most frames a video handed to extract_frames has
MaxSampledFrames == 5
\* largest max_frames argument handed to extract_frames
MaxRequestedFrames == 3

\* extract_frames(video_file, max_frames); max_frames = 0 stands for the
\* omitted argument
InitExtractFrames ==
    /\ entry = "extract_frames"
    /\ pc = "extract_frames"
    /\ video_file \in VideoFiles(MaxSampledFrames)
    /\ audio_file = None
    /\ text_content = <<>>
    /\ pv = None
    /\ pa = None
    /\ ef \in {[max_frames |-> n] : n \in 0..MaxRequestedFrames}
    /\ text_analysis = None
    /\ video_analysis = None
    /\ audio_analysis = None
    /\ all_entities = <<>>
    /\ unique_entities = <<>>
    /\ integrated_confidence_scores = EmptyDict
    /\ result = None
    /\ disk = {}
    /\ created = {}
    /\ calls = <<>>
    /\ exc = None
    /\ args = None

\* extract_audio_from_video(video_file)
InitExtractAudio ==
    /\ entry = "extract_audio_from_video"
    /\ pc = "extract_audio_from_video"
    /\ video_file \in VideoFiles(MaxTotalFrames)
    /\ audio_file = None
    /\ text_content = <<>>
    /\ pv = None
    /\ pa = NewAudio(None)
    /\ Idle

\* process_audio_file(audio_file)
InitAudioFile ==
    /\ entry = "process_audio_file"
    /\ pc = "process_audio_file"
    /\ video_file = None
    /\ audio_file \in AudioFiles
    /\ text_content = <<>>
    /\ pv = None
    /\ pa = NewAudio(audio_file)
    /\ Idle

\* transcribe_audio(audio_file)
InitTranscribe ==
    /\ entry = "transcribe_audio"
    /\ pc = "transcribe_audio"
    /\ video_file = None
    /\ audio_file \in AudioFiles
    /\ text_content = <<>>
    /\ pv = None
    /\ pa = NewAudio(audio_file)
    /\ Idle

\* the longest caption extract_hashtags is handed
MaxTextLen == 5

\* captions over a small alphabet: the hashtag sign, letters of both cases, a
\* letter whose upper case is two characters, and a separator
HashtagAlphabet == {"#", "a", "B", SharpS, " "}

HashtagTexts == SeqsUpTo(HashtagAlphabet, MaxTextLen)

\* TextProcessor.extract_hashtags(text) called directly
InitHashtags ==
    /\ entry = "extract_hashtags"
    /\ pc = "extract_hashtags"
    /\ video_file = None
    /\ audio_file = None
    /\ text_content \in HashtagTexts
    /\ pv = None
    /\ pa = None
    /\ Idle

\* the longest hashtag list categorize_hashtags is handed
MaxHashtags == 3

\* hashtags matching one category, two categories and none
HashtagPool ==
    {Chars("food"), Chars("restaurant"), Chars("artist"), Chars("art"), Chars("xyz")}

\* TextProcessor.categorize_hashtags(hashtags) called directly
InitCategorize ==
    /\ entry = "categorize_hashtags"
    /\ pc = "categorize_hashtags"
    /\ video_file = None
    /\ audio_file = None
    /\ text_content = <<>>
    /\ pv = None
    /\ pa = None
    /\ text_analysis = None
    /\ video_analysis = None
    /\ audio_analysis = None
    /\ all_entities = <<>>
    /\ unique_entities = <<>>
    /\ integrated_confidence_scores = EmptyDict
    /\ result = None
    /\ disk = {}
    /\ created = {}
    /\ ef = None
    /\ calls = <<>>
    /\ exc = None
    /\ args \in {[hashtags |-> h] : h \in SeqsUpTo(HashtagPool, MaxHashtags)}

\* the longest JSON array a model response holds
MaxResponseItems == 2

\* decoded items: kept, on the lower and the upper limit of the confidence
\* range, outside it, without a required field, with an unknown category,
\* and with values of the wrong JSON type
ResponseItems ==
    { [name |-> JString(Chars(" Apple ")), category |-> JString(Chars("brand")),
       confidence |-> JNumber(Tenth(9)), context |-> JString(Chars("we love Apple"))],
      [name |-> JString(Chars("Pizza")), category |-> JString(Chars("PRODUCT")),
       confidence |-> JNumber(Tenth(6))],
      [name |-> JString(Chars("Rome")), category |-> JString(Chars("Location")),
       confidence |-> JString(Chars("1.0"))],
      [name |-> JString(Chars("Expo")), category |-> JString(Chars("EVENT")),
       confidence |-> JNumber(Tenth(11))],
      [name |-> JString(Chars("Low")), category |-> JString(Chars("PRODUCT")),
       confidence |-> JNumber(Tenth(3))],
      [name |-> JString(Chars("Bare")), category |-> JString(Chars("PERSON"))],
      [name |-> JString(Chars("Soup")), category |-> JString(Chars("FOOD")),
       confidence |-> JNumber(Tenth(9))],
      [name |-> JString(Chars("Vague")), category |-> JString(Chars("CONCEPT")),
       confidence |-> JString(Chars("high"))],
      [name |-> JString(Chars("Odd")), category |-> JNumber(5 * ONE),
       confidence |-> JNumber(Tenth(9))],
      [name |-> JString(Chars("Void")), category |-> JString(Chars("BRAND")),
       confidence |-> JNull] }

\* TextProcessor._parse_gpt_entity_response called on a response holding a
\* JSON array
InitParse ==
    /\ entry = "_parse_gpt_entity_response"
    /\ pc = "_parse_gpt_entity_response"
    /\ video_file = None
    /\ audio_file = None
    /\ text_content = <<>>
    /\ pv = None
    /\ pa = None
    /\ text_analysis = None
    /\ video_analysis = None
    /\ audio_analysis = None
    /\ all_entities = <<>>
    /\ unique_entities = <<>>
    /\ integrated_confidence_scores = EmptyDict
    /\ result = None
    /\ disk = {}
    /\ created = {}
    /\ ef = None
    /\ calls = <<>>
    /\ exc = None
    /\ args \in {[entity_data |-> d, source |-> "caption",
                   original_text |-> Chars("Great pizza in Rome")]
                  : d \in SeqsUpTo(ResponseItems, MaxResponseItems)}

\* the most lines a model response holds
MaxResponseLines == 2

\* lines of a response: entities above, on and below the confidence floor,
\* a comment line, a bracketed line, numbers float() or Entity() reject,
\* and an empty JSON array
ResponseLines ==
    { Chars("Product: iPhone (0.9)"), Chars("brand: Apple (0.6)"),
      Chars("Location: Rome (0.5)"), Chars("# Event: Expo (0.9)"),
      Chars("[Event: Expo (0.8)]"), Chars("Person: Ann (1.2.3)"),
      Chars("Concept: Joy (1.5)"), Chars("[]") }

ResponseTexts ==
    {Join(<<"\n">>, lines) : lines \in SeqsUpTo(ResponseLines, MaxResponseLines)}

\* TextProcessor._parse_gpt_entity_response(response_text, source, original_text)
InitParseText ==
    /\ entry = "_parse_gpt_entity_response_text"
    /\ pc = "_parse_gpt_entity_response_text"
    /\ video_file = None
    /\ audio_file = None
    /\ text_content = <<>>
    /\ pv = None
    /\ pa = None
    /\ text_analysis = None
    /\ video_analysis = None
    /\ audio_analysis = None
    /\ all_entities = <<>>
    /\ unique_entities = <<>>
    /\ integrated_confidence_scores = EmptyDict
    /\ result = None
    /\ disk = {}
    /\ created = {}
    /\ ef = None
    /\ calls = <<>>
    /\ exc = None
    /\ args \in {[response_text |-> r, source |-> "caption",
                   original_text |-> Chars("Great pizza in Rome")]
                  : r \in ResponseTexts}

\* TextProcessor.extract_entities_with_gpt(text, source), with the answer
\* the backend is going to give
InitExtractEntities ==
    /\ entry = "extract_entities_with_gpt"
    /\ pc = "extract_entities_with_gpt"
    /\ video_file = None
    /\ audio_file = None
    /\ text_content = <<>>
    /\ pv = None
    /\ pa = None
    /\ text_analysis = None
    /\ video_analysis = None
    /\ audio_analysis = None
    /\ all_entities = <<>>
    /\ unique_entities = <<>>
    /\ integrated_confidence_scores = EmptyDict
    /\ result = None
    /\ disk = {}
    /\ created = {}
    /\ ef = None
    /\ calls = <<>>
    /\ exc = None
    /\ args \in {[text |-> t, source |-> "caption", backend |-> b]
                  : t \in {Chars("Great pizza in Rome"), Chars("  ")},
                    b \in {BackendError} \cup {BackendResponse(r) : r \in ResponseTexts}}

(***************************************************************************)
(* Returning from a sub-pipeline.  Called directly, the operation hands    *)
(* its outcome to the external caller; called by                           *)
(* process_complete_content, control continues there.                      *)
(***************************************************************************)
\* process_video ends with r; in process_complete_content a result is stored
\* (content_id set) and process_video_audio is called next, and an exception
\* reaches the handler at "except Exception"
ProcessVideoExit(r) ==
    /\ pv' = [pv EXCEPT !.status = r.kind]
    /\ IF entry = "process_video"
       THEN /\ result' = r
            /\ pc' = "done"
            /\ UNCHANGED <<video_analysis, exc, calls, pa>>
       ELSE IF r.kind = "raised"
       THEN /\ exc' = r.exc
            /\ pc' = "pcc_except"
            /\ UNCHANGED <<video_analysis, result, calls, pa>>
       ELSE /\ video_analysis' = [r.value EXCEPT !.content_id = ContentId]
            /\ calls' = Append(calls, "process_video_audio")
            /\ pa' = NewAudio(None)
            /\ pc' = "extract_audio_from_video"
            /\ UNCHANGED <<result, exc>>

\* process_video_audio or process_audio_file returns the transcription t
AudioExit(t) ==
    /\ IF entry \in {"process_video_audio", "process_audio_file"}
       THEN /\ result' = Returned(t)
            /\ pc' = "done"
            /\ UNCHANGED audio_analysis
       ELSE /\ audio_analysis' = [t EXCEPT !.content_id = ContentId]
            /\ pc' = "pcc_integrate"
            /\ UNCHANGED result

(***************************************************************************)
(* VideoProcessor.extract_frames                                           *)
(***************************************************************************)
\* extract_frames ends with r: called directly, r goes to the external caller;
\* called by process_video (line 294), a list is bound to frames and an
\* exception leaves process_video through "except: raise" (lines 367-369)
ExtractFramesExit(r) ==
    IF entry = "extract_frames"
    THEN /\ result' = r
         /\ pc' = "done"
         /\ UNCHANGED <<pv, video_analysis, exc, calls, pa>>
    ELSE IF r.kind = "raised"
    THEN ProcessVideoExit(r)
    ELSE /\ pv' = [pv EXCEPT !.frames = r.value]
         /\ pc' = "pv_frames"
         /\ UNCHANGED <<result, video_analysis, exc, calls, pa>>

\* line 55: max_frames = max_frames or self.max_frames; the argument is 0
\* when it is omitted (None) or zero
MaxFramesOrDefault(max_frames) ==
    IF max_frames = 0 THEN DefaultMaxFrames ELSE max_frames

\* lines 52-79: existence check, open, frame_step
ExtractFramesOpen ==
    /\ pc = "extract_frames"
    /\ IF ~video_file.exists
       THEN /\ ExtractFramesExit(Raised(Exception("FileNotFoundError", MsgVideoNotFound)))
            /\ UNCHANGED ef
       ELSE IF ~video_file.openable
       THEN /\ ExtractFramesExit(Raised(Exception("ValueError", MsgCouldNotOpen)))
            /\ UNCHANGED ef
       ELSE /\ LET max_frames == MaxFramesOrDefault(IF ef = None THEN 0
                                                    ELSE ef.max_frames)
               IN  ef' = [max_frames |-> max_frames,
                          frames |-> <<>>,
                          fps |-> video_file.fps,
                          total_frames |-> video_file.total_frames,
                          frame_step |-> FrameStep(video_file.fps,
                                                   video_file.total_frames, max_frames),
                          frame_count |-> 0,
                          extracted_count |-> 0]
            /\ pc' = "ef_loop"
            /\ UNCHANGED <<pv, result, video_analysis, exc, calls, pa>>
    /\ UNCHANGED <<video_file, audio_file, text_content, text_analysis,
                   audio_analysis, all_entities, unique_entities,
                   integrated_confidence_scores, disk, created, entry, args>>

\* lines 81-119: one iteration of "while extracted_count < max_frames".
\* read is what cap.read() does for this frame: "ok", or "error" when the
\* decoder raises; write is the value of cv2.imwrite.
ExtractFramesRead ==
    /\ pc = "ef_loop"
    /\ UNCHANGED <<video_file, audio_file, text_content, text_analysis,
                   audio_analysis, all_entities, unique_entities,
                   integrated_confidence_scores, entry, args>>
    /\ IF ef.extracted_count >= ef.max_frames \/ ef.frame_count >= ef.total_frames
       THEN \* the loop ends: condition false, or ret is False
            /\ ExtractFramesExit(Returned(ef.frames))
            /\ UNCHANGED <<ef, disk, created>>
       ELSE \E read \in {"ok", "error"}, write \in BOOLEAN :
            IF read = "error"
            THEN /\ write
                 /\ ExtractFramesExit(Raised(Exception("ValueError", MsgDecodeError)))
                 /\ UNCHANGED <<ef, disk, created>>
            ELSE IF ef.frame_count % ef.frame_step = 0
            THEN /\ created' = created \cup {TempFile(".jpg")}
                 /\ disk' = disk \cup {TempFile(".jpg")}
                 /\ ef' = IF write
                          THEN [ef EXCEPT
                                  !.frames = Append(@, ImageFrame(TempFile(".jpg"),
                                                       ef.frame_count, ef.fps)),
                                  !.extracted_count = @ + 1,
                                  !.frame_count = @ + 1]
                          ELSE [ef EXCEPT !.frame_count = @ + 1]
                 /\ UNCHANGED <<pc, pv, result, video_analysis, exc, calls, pa>>
            ELSE /\ write
                 /\ ef' = [ef EXCEPT !.frame_count = @ + 1]
                 /\ UNCHANGED <<pc, pv, disk, created, result, video_analysis, exc,
                                calls, pa>>

(***************************************************************************)
(* VideoProcessor.process_video                                            *)
(***************************************************************************)
\* lines 296-320: the "if not frames" return, else the loop starts
ProcessVideoFrames ==
    /\ pc = "pv_frames"
    /\ IF pv.frames = <<>>
       THEN ProcessVideoExit(Returned(NoFramesAnalysis))
       ELSE /\ pc' = "pv_loop"
            /\ UNCHANGED <<pv, result, video_analysis, exc, calls, pa>>
    /\ UNCHANGED <<video_file, audio_file, text_content, text_analysis,
                   audio_analysis, all_entities, unique_entities,
                   integrated_confidence_scores, disk, created, ef, entry, args>>

\* the loop body counting an analysis as successful only when it is not the
\* placeholder of a failed call
ProcessVideoAnalyzeFrameCountingRealSuccess ==
    /\ pc = "pv_loop"
    /\ pv.i < Len(pv.frames)
    /\ \E analysis \in FrameAnalyses :
          pv' = [pv EXCEPT
                   !.all_objects = @ \cup analysis.objects,
                   !.all_text_overlays = @ \cup analysis.text_overlays,
                   !.scene_descriptions = Append(@, analysis.scene_description),
                   !.confidence_scores = (FrameKey(pv.i) :> analysis.confidence) @@ @,
                   !.frame_analysis_results = Append(@, analysis),
                   !.successful_analyses =
                       IF analysis.confidence = 0 THEN @ ELSE @ + 1,
                   !.i = @ + 1]
    /\ disk' = disk \ {pv.frames[pv.i + 1].file_path}
    /\ UNCHANGED <<pc, video_file, audio_file, text_content, text_analysis,
                   video_analysis, audio_analysis, all_entities, unique_entities,
                   integrated_confidence_scores, result, created, ef, pa, calls,
                   entry, args, exc>>

\* lines 322-342: one iteration of "for i, frame in enumerate(frames)".
\* analyze_frame_with_gpt4v never raises, so the except branch of the loop
\* body is never taken; the finally branch unlinks the frame file.
ProcessVideoAnalyzeFrame ==
    /\ pc = "pv_loop"
    /\ pv.i < Len(pv.frames)
    /\ \E analysis \in FrameAnalyses :
          pv' = [pv EXCEPT
                   !.all_objects = @ \cup analysis.objects,
                   !.all_text_overlays = @ \cup analysis.text_overlays,
                   !.scene_descriptions = Append(@, analysis.scene_description),
                   !.confidence_scores = (FrameKey(pv.i) :> analysis.confidence) @@ @,
                   !.frame_analysis_results = Append(@, analysis),
                   !.successful_analyses = @ + 1,
                   !.i = @ + 1]
    /\ disk' = disk \ {pv.frames[pv.i + 1].file_path}
    /\ UNCHANGED <<pc, video_file, audio_file, text_content, text_analysis,
                   video_analysis, audio_analysis, all_entities, unique_entities,
                   integrated_confidence_scores, result, created, ef, pa, calls,
                   entry, args, exc>>

\* lines 344-365: aggregate and return
ProcessVideoAggregate ==
    /\ pc = "pv_loop"
    /\ pv.i = Len(pv.frames)
    /\ ProcessVideoExit(Returned(
          VideoAnalysis(Len(pv.frames), pv.all_objects, pv.all_text_overlays,
                        pv.scene_descriptions,
                        _calculate_video_confidence_scores(
                            pv.frames, pv.frame_analysis_results, pv.all_objects,
                            pv.all_text_overlays, pv.scene_descriptions,
                            pv.successful_analyses))))
    /\ UNCHANGED <<video_file, audio_file, text_content, text_analysis,
                   audio_analysis, all_entities, unique_entities,
                   integrated_confidence_scores, disk, created, ef, entry, args>>

(***************************************************************************)
(* AudioProcessor.process_video_audio                                      *)
(***************************************************************************)
\* extract_audio_from_video raises e: to the external caller when called
\* directly; in process_video_audio the exception is caught at line 217 and
\* the finally branch finds audio_file = None and unlinks nothing
ExtractAudioRaise(e) ==
    IF entry = "extract_audio_from_video"
    THEN /\ result' = Raised(e)
         /\ pc' = "done"
         /\ pa' = [pa EXCEPT !.status = "raised"]
         /\ UNCHANGED audio_analysis
    ELSE /\ AudioExit(AudioProcessingFailed(e.msg))
         /\ pa' = [pa EXCEPT !.status = "returned"]

\* extract_audio_from_video returns the AudioFile a (line 103)
ExtractAudioReturn(a) ==
    IF entry = "extract_audio_from_video"
    THEN /\ result' = Returned(a)
         /\ pc' = "done"
         /\ pa' = [pa EXCEPT !.audio_file = a, !.status = "returned"]
         /\ UNCHANGED audio_analysis
    ELSE /\ pa' = [pa EXCEPT !.audio_file = a]
         /\ pc' = "pva_transcribe"
         /\ UNCHANGED <<result, audio_analysis>>

\* lines 206-209 with extract_audio_from_video (lines 50-111)
ExtractAudioFromVideo ==
    /\ pc = "extract_audio_from_video"
    /\ UNCHANGED <<video_file, audio_file, text_content, text_analysis,
                   video_analysis, all_entities, unique_entities,
                   integrated_confidence_scores, ef, pv, calls, entry, args, exc>>
    /\ IF ~video_file.exists
       THEN /\ ExtractAudioRaise(Exception("FileNotFoundError", MsgVideoNotFound))
            /\ UNCHANGED <<disk, created>>
       ELSE /\ created' = created \cup {TempFile(".wav")}
            /\ disk' = disk \cup {TempFile(".wav")}
            /\ \E outcome \in {"ok", "ffmpeg_error", "no_audio_stream"},
                  too_large \in BOOLEAN :
                  IF outcome = "ok"
                  THEN ExtractAudioReturn(
                          AudioFile(TempFile(".wav"), TRUE, TRUE, too_large))
                  ELSE /\ ~too_large
                       /\ ExtractAudioRaise(Exception("ValueError",
                             IF outcome = "ffmpeg_error" THEN MsgFFmpeg
                             ELSE MsgNoAudioStream))

\* lines 212-233: transcribe, return, and the finally branch unlinks the
\* extracted audio file
ProcessVideoAudioTranscribe ==
    /\ pc = "pva_transcribe"
    /\ \E r \in transcribe_audio(pa.audio_file) :
          AudioExit(IF r.kind = "returned" THEN r.value
                    ELSE AudioProcessingFailed(r.exc.msg))
    /\ pa' = [pa EXCEPT !.status = "returned"]
    /\ disk' = disk \ {pa.audio_file.file_path}
    /\ UNCHANGED <<video_file, audio_file, text_content, text_analysis,
                   video_analysis, all_entities, unique_entities,
                   integrated_confidence_scores, created, ef, pv, calls, entry, args, exc>>

(***************************************************************************)
(* AudioProcessor.process_audio_file                                       *)
(***************************************************************************)
\* lines 247-253 with _convert_audio_format (lines 283-319): a file of an
\* unsupported format is transcoded into a new temporary file
ProcessAudioFileConvert ==
    /\ pc = "process_audio_file"
    /\ UNCHANGED <<video_file, audio_file, text_content, text_analysis,
                   video_analysis, all_entities, unique_entities,
                   integrated_confidence_scores, ef, pv, calls, entry, args, exc>>
    /\ IF pa.audio_file.supported
       THEN /\ pc' = "paf_transcribe"
            /\ UNCHANGED <<pa, disk, created, result, audio_analysis>>
       ELSE /\ created' = created \cup {TempFile(".wav")}
            /\ disk' = disk \cup {TempFile(".wav")}
            /\ \E converted \in BOOLEAN, too_large \in BOOLEAN :
                  IF converted /\ pa.audio_file.exists
                  THEN /\ pa' = [pa EXCEPT !.audio_file =
                                    AudioFile(TempFile(".wav"), TRUE, TRUE, too_large)]
                       /\ pc' = "paf_transcribe"
                       /\ UNCHANGED <<result, audio_analysis>>
                  ELSE /\ ~converted /\ ~too_large
                       /\ AudioExit(AudioProcessingFailed(MsgConversion))
                       /\ pa' = [pa EXCEPT !.status = "returned"]

\* lines 256-269: transcribe and return; an exception of transcribe_audio is
\* caught at line 261
ProcessAudioFileTranscribe ==
    /\ pc = "paf_transcribe"
    /\ \E r \in transcribe_audio(pa.audio_file) :
          AudioExit(IF r.kind = "returned" THEN r.value
                    ELSE AudioProcessingFailed(r.exc.msg))
    /\ pa' = [pa EXCEPT !.status = "returned"]
    /\ UNCHANGED <<video_file, audio_file, text_content, text_analysis,
                   video_analysis, all_entities, unique_entities,
                   integrated_confidence_scores, disk, created, ef, pv, calls,
                   entry, args, exc>>

\* transcribe_audio(audio_file) called directly: its outcome goes to the caller
TranscribeAudio ==
    /\ pc = "transcribe_audio"
    /\ \E r \in transcribe_audio(pa.audio_file) :
          /\ result' = r
          /\ pa' = [pa EXCEPT !.status = r.kind]
    /\ pc' = "done"
    /\ UNCHANGED <<video_file, audio_file, text_content, text_analysis,
                   video_analysis, audio_analysis, all_entities, unique_entities,
                   integrated_confidence_scores, disk, created, ef, pv, calls,
                   entry, args, exc>>

\* extract_hashtags(text) called directly: the list goes to the caller
ExtractHashtags ==
    /\ pc = "extract_hashtags"
    /\ result' = Returned(extract_hashtags(text_content))
    /\ pc' = "done"
    /\ UNCHANGED <<video_file, audio_file, text_content, text_analysis,
                   video_analysis, audio_analysis, all_entities, unique_entities,
                   integrated_confidence_scores, disk, created, ef, pv, pa, calls,
                   entry, args, exc>>

\* categorize_hashtags(hashtags) called directly: the dict goes to the caller
CategorizeHashtags ==
    /\ pc = "categorize_hashtags"
    /\ result' = Returned(categorize_hashtags(args.hashtags))
    /\ pc' = "done"
    /\ UNCHANGED <<video_file, audio_file, text_content, text_analysis,
                   video_analysis, audio_analysis, all_entities, unique_entities,
                   integrated_confidence_scores, disk, created, ef, pv, pa, calls,
                   entry, exc, args>>

\* _parse_gpt_entity_response called directly: the list goes to the caller
ParseGptEntityResponse ==
    /\ pc = "_parse_gpt_entity_response"
    /\ result' = Returned(_parse_gpt_entity_response(
                     args.entity_data, args.source, args.original_text))
    /\ pc' = "done"
    /\ UNCHANGED <<video_file, audio_file, text_content, text_analysis,
                   video_analysis, audio_analysis, all_entities, unique_entities,
                   integrated_confidence_scores, disk, created, ef, pv, pa, calls,
                   entry, exc, args>>

\* _parse_gpt_entity_response called directly on a response text
ParseGptEntityResponseText ==
    /\ pc = "_parse_gpt_entity_response_text"
    /\ result' = _parse_gpt_entity_response_text(
                     args.response_text, args.source, args.original_text)
    /\ pc' = "done"
    /\ UNCHANGED <<video_file, audio_file, text_content, text_analysis,
                   video_analysis, audio_analysis, all_entities, unique_entities,
                   integrated_confidence_scores, disk, created, ef, pv, pa, calls,
                   entry, exc, args>>

\* extract_entities_with_gpt called directly
ExtractEntitiesWithGpt ==
    /\ pc = "extract_entities_with_gpt"
    /\ result' = Returned(extract_entities_with_gpt(args.text, args.source, args.backend))
    /\ pc' = "done"
    /\ UNCHANGED <<video_file, audio_file, text_content, text_analysis,
                   video_analysis, audio_analysis, all_entities, unique_entities,
                   integrated_confidence_scores, disk, created, ef, pv, pa, calls,
                   entry, exc, args>>

(***************************************************************************)
(* MultiModalAnalyzer.process_complete_content                             *)
(***************************************************************************)
\* lines 117-122: "if text_content:" process_text, which never raises
ProcessText ==
    /\ pc = "pcc_text"
    /\ IF text_content # <<>>
       THEN \E ta \in process_text_content(text_content) :
               /\ text_analysis' = [ta EXCEPT !.content_id = ContentId]
               /\ all_entities' = all_entities \o ta.extracted_entities
               /\ calls' = Append(calls, "process_text")
       ELSE UNCHANGED <<text_analysis, all_entities, calls>>
    /\ pc' = "pcc_media"
    /\ UNCHANGED <<video_file, audio_file, text_content, video_analysis,
                   audio_analysis, unique_entities, integrated_confidence_scores,
                   result, disk, created, ef, pv, pa, entry, args, exc>>

\* lines 125 and 136: "if video_file: ... elif audio_file: ..."
MediaRouteAudioFirst(video, audio) ==
    IF audio # None THEN "audio" ELSE IF video # None THEN "video" ELSE "none"
MediaRoute(video, audio) ==
    IF video # None THEN "video" ELSE IF audio # None THEN "audio" ELSE "none"

\* lines 124-139: the media sub-pipeline is chosen and called
ProcessMedia ==
    /\ pc = "pcc_media"
    /\ IF MediaRoute(video_file, audio_file) = "video"
       THEN /\ calls' = Append(calls, "process_video")
            /\ pv' = NewProcessVideo
            /\ pc' = "extract_frames"
            /\ UNCHANGED pa
       ELSE IF MediaRoute(video_file, audio_file) = "audio"
       THEN /\ calls' = Append(calls, "process_audio")
            /\ pa' = NewAudio(audio_file)
            /\ pc' = "process_audio_file"
            /\ UNCHANGED pv
       ELSE /\ pc' = "pcc_integrate"
            /\ UNCHANGED <<calls, pv, pa>>
    /\ UNCHANGED <<video_file, audio_file, text_content, text_analysis,
                   video_analysis, audio_analysis, all_entities, unique_entities,
                   integrated_confidence_scores, result, disk, created, ef,
                   entry, args, exc>>

\* lines 141-160: integrate the confidence scores, merge the entities, return
IntegrateAndReturn ==
    /\ pc = "pcc_integrate"
    /\ LET scores == _integrate_confidence_scores(text_analysis, video_analysis,
                                                  audio_analysis)
           merged == _merge_entities(all_entities)
           analysis == ContentAnalysis(ContentId, text_analysis, audio_analysis,
                                       merged, PyFloats(scores.value))
       IN  IF scores.kind = "raised"
           THEN /\ exc' = scores.exc
                /\ pc' = "pcc_except"
                /\ UNCHANGED <<integrated_confidence_scores, unique_entities, result>>
           ELSE /\ integrated_confidence_scores' = scores.value
                /\ unique_entities' = merged
                /\ IF analysis.kind = "raised"
                   THEN /\ exc' = analysis.exc
                        /\ pc' = "pcc_except"
                        /\ UNCHANGED result
                   ELSE /\ result' = analysis
                        /\ pc' = "done"
                        /\ UNCHANGED exc
    /\ UNCHANGED <<video_file, audio_file, text_content, text_analysis,
                   video_analysis, audio_analysis, all_entities, disk, created,
                   ef, pv, pa, calls, entry, args>>

\* lines 162-171: the handler builds the error record; what its
\* constructor raises leaves process_complete_content
HandleException ==
    /\ pc = "pcc_except"
    /\ result' = ContentAnalysis(ContentId, text_analysis, audio_analysis,
                                 all_entities,
                                 [overall |-> PyFloat(0), error |-> PyStr(exc.msg)])
    /\ pc' = "done"
    /\ UNCHANGED <<video_file, audio_file, text_content, text_analysis,
                   video_analysis, audio_analysis, all_entities, unique_entities,
                   integrated_confidence_scores, disk, created, ef, pv, pa, calls,
                   entry, args, exc>>

(***************************************************************************)
(* Specifications                                                          *)
(***************************************************************************)
VideoActions ==
    \/ ExtractFramesOpen
    \/ ExtractFramesRead
    \/ ProcessVideoFrames
    \/ ProcessVideoAnalyzeFrame
    \/ ProcessVideoAggregate

VideoAudioActions ==
    \/ ExtractAudioFromVideo
    \/ ProcessVideoAudioTranscribe

AudioFileActions ==
    \/ ProcessAudioFileConvert
    \/ ProcessAudioFileTranscribe

\* process_complete_content(video_file, audio_file, text_content, content_id)
Init == InitContent

Next ==
    \/ ProcessText
    \/ ProcessMedia
    \/ VideoActions
    \/ VideoAudioActions
    \/ AudioFileActions
    \/ IntegrateAndReturn
    \/ HandleException

Spec == Init /\ [][Next]_vars

\* VideoProcessor.process_video(video_file)
SpecVideo == InitVideo /\ [][VideoActions]_vars

\* AudioProcessor.process_video_audio(video_file)
SpecVideoAudio == InitVideoAudio /\ [][VideoAudioActions]_vars

\* VideoProcessor.extract_frames(video_file, max_frames)
SpecExtractFrames == InitExtractFrames /\ [][ExtractFramesOpen \/ ExtractFramesRead]_vars

\* every processor operation that takes a media file, called on its own
InitProcessors ==
    \/ InitExtractFrames
    \/ InitVideo
    \/ InitExtractAudio
    \/ InitVideoAudio
    \/ InitTranscribe
    \/ InitAudioFile

ProcessorActions ==
    \/ VideoActions
    \/ VideoAudioActions
    \/ AudioFileActions
    \/ TranscribeAudio

SpecProcessors == InitProcessors /\ [][ProcessorActions]_vars

\* TextProcessor.extract_hashtags(text)
SpecHashtags == InitHashtags /\ [][ExtractHashtags]_vars

\* TextProcessor.categorize_hashtags(hashtags)
SpecCategorize == InitCategorize /\ [][CategorizeHashtags]_vars

\* TextProcessor._parse_gpt_entity_response(response_text, source, original_text)
SpecParse == InitParse /\ [][ParseGptEntityResponse]_vars

\* the entity extraction on response texts, with and without the backend call
SpecGptEntities ==
    (InitParseText \/ InitExtractEntities)
        /\ [][ParseGptEntityResponseText \/ ExtractEntitiesWithGpt]_vars

(***************************************************************************)
(* _merge_entities and _integrate_confidence_scores called on their own    *)
(***************************************************************************)
\* entities handed to _merge_entities
EntityPool ==
    { Entity(Chars("Apple"), "brand", Hundredth(90), "caption", Chars("we love Apple")),
      Entity(Chars("apple"), "brand", Hundredth(70), "vision", Chars("logo")),
      Entity(Chars(" apple"), "brand", Hundredth(90), "hashtag", <<>>),
      Entity(Chars("apple"), "product", Hundredth(70), "audio", Chars("an apple a day")),
      Entity(Chars("APPLE "), "brand", Hundredth(80), "ocr", Chars("sign")),
      Entity(Chars("Pie"), "brand", ONE, "caption", Chars("pie shop")),
      Entity(Chars("pie"), "brand", ONE, "ocr", <<>>) }

InitMerge ==
    /\ entry = "_merge_entities"
    /\ pc = "_merge_entities"
    /\ video_file = None
    /\ audio_file = None
    /\ text_content = <<>>
    /\ pv = None
    /\ pa = None
    /\ text_analysis = None
    /\ video_analysis = None
    /\ audio_analysis = None
    /\ all_entities \in SeqsUpTo(EntityPool, MaxEntities)
    /\ unique_entities = <<>>
    /\ integrated_confidence_scores = EmptyDict
    /\ result = None
    /\ disk = {}
    /\ created = {}
    /\ ef = None
    /\ calls = <<>>
    /\ exc = None
    /\ args = None

\* unique_entities = self._merge_entities(all_entities)
MergeEntities ==
    /\ pc = "_merge_entities"
    /\ unique_entities' = _merge_entities(all_entities)
    /\ result' = Returned(_merge_entities(all_entities))
    /\ pc' = "done"
    /\ UNCHANGED <<video_file, audio_file, text_content, text_analysis,
                   video_analysis, audio_analysis, all_entities,
                   integrated_confidence_scores, disk, created, ef, pv, pa, calls,
                   entry, args, exc>>

SpecMerge == InitMerge /\ [][MergeEntities]_vars

\* modality scores handed to _integrate_confidence_scores
Scores == {0, Tenth(2), Tenth(5), ONE}

IntegrateTextAnalyses ==
    UNION {process_text_content(t) : t \in TextContents \ {<<>>}}

IntegrateVideoAnalyses ==
    {NoFramesAnalysis}
    \cup {VideoAnalysis(1, objects, overlays, <<Chars("a scene")>>,
                        [overall |-> o, frame_extraction |-> ONE,
                         analysis_success_rate |-> ONE, object_detection |-> o,
                         text_recognition |-> o, scene_analysis |-> o,
                         frame_0 |-> o])
          : o \in Scores,
            objects \in {{}, {Chars("Pizza"), Chars("Table")}},
            overlays \in {{}, {Chars("menu")}}}

IntegrateAudioTranscriptions ==
    {TranscriptionFailed(MsgApiError)}
    \cup {AudioTranscription(t, <<>>, "en", c)
          : t \in {<<>>, Chars("We ordered PIZZA here")}, c \in Scores}

InitIntegrate ==
    /\ entry = "_integrate_confidence_scores"
    /\ pc = "_integrate_confidence_scores"
    /\ video_file = None
    /\ audio_file = None
    /\ text_content = <<>>
    /\ pv = None
    /\ pa = None
    /\ text_analysis \in {None} \cup IntegrateTextAnalyses
    /\ video_analysis \in {None} \cup IntegrateVideoAnalyses
    /\ audio_analysis \in {None} \cup IntegrateAudioTranscriptions
    /\ all_entities = <<>>
    /\ unique_entities = <<>>
    /\ integrated_confidence_scores = EmptyDict
    /\ result = None
    /\ disk = {}
    /\ created = {}
    /\ ef = None
    /\ calls = <<>>
    /\ exc = None
    /\ args = None

\* self._integrate_confidence_scores(text_analysis, video_analysis, audio_analysis)
IntegrateConfidenceScores ==
    /\ pc = "_integrate_confidence_scores"
    /\ result' = _integrate_confidence_scores(text_analysis, video_analysis,
                                              audio_analysis)
    /\ integrated_confidence_scores' =
          IF result'.kind = "returned" THEN result'.value ELSE EmptyDict
    /\ pc' = "done"
    /\ UNCHANGED <<video_file, audio_file, text_content, text_analysis,
                   video_analysis, audio_analysis, all_entities, unique_entities,
                   disk, created, ef, pv, pa, calls, entry, args, exc>>

SpecIntegrate == InitIntegrate /\ [][IntegrateConfidenceScores]_vars

\* audio analyses for the consistency scores: every kind of failure
\* placeholder, and transcripts that are empty, short and long
ConsistencyAudioTranscriptions ==
    IntegrateAudioTranscriptions
    \cup {TranscriptionFailed(<<>>), TranscriptionFailed(MsgTooLarge),
          AudioProcessingFailed(<<>>), AudioProcessingFailed(MsgFFmpeg),
          AudioTranscription(Chars("  pizza  "), <<>>, "en", Tenth(5))}

\* text analyses for the consistency scores: those of the captions above and
\* of a caption with ten keywords, three of them words of a failure message
ConsistencyTextAnalyses ==
    IntegrateTextAnalyses
    \cup process_text_content(
             Chars("audio file large pizza pasta salad bread cheese olive wine"))

\* MultiModalAnalyzer._calculate_cross_modal_consistency called directly
InitConsistency ==
    /\ entry = "_calculate_cross_modal_consistency"
    /\ pc = "_calculate_cross_modal_consistency"
    /\ video_file = None
    /\ audio_file = None
    /\ text_content = <<>>
    /\ pv = None
    /\ pa = None
    /\ text_analysis \in {None} \cup ConsistencyTextAnalyses
    /\ video_analysis \in {None} \cup IntegrateVideoAnalyses
    /\ audio_analysis \in {None} \cup ConsistencyAudioTranscriptions
    /\ all_entities = <<>>
    /\ unique_entities = <<>>
    /\ integrated_confidence_scores = EmptyDict
    /\ result = None
    /\ disk = {}
    /\ created = {}
    /\ ef = None
    /\ calls = <<>>
    /\ exc = None
    /\ args = None

\* self._calculate_cross_modal_consistency(text_analysis, video_analysis, audio_analysis)
CalculateCrossModalConsistency ==
    /\ pc = "_calculate_cross_modal_consistency"
    /\ result' = Returned(_calculate_cross_modal_consistency(
                     text_analysis, video_analysis, audio_analysis))
    /\ pc' = "done"
    /\ UNCHANGED <<video_file, audio_file, text_content, text_analysis,
                   video_analysis, audio_analysis, all_entities, unique_entities,
                   integrated_confidence_scores, disk, created, ef, pv, pa, calls,
                   entry, exc, args>>

SpecConsistency == InitConsistency /\ [][CalculateCrossModalConsistency]_vars

\* the two weighted overalls: process_video and _integrate_confidence_scores
SpecConfidence ==
    (InitVideo \/ InitIntegrate) /\ [][VideoActions \/ IntegrateConfidenceScores]_vars

(***************************************************************************)
(* Properties                                                              *)
(***************************************************************************)
InSeq(x, seq) == \E i \in 1..Len(seq) : seq[i] = x

Count(x, seq) == Cardinality({i \in 1..Len(seq) : seq[i] = x})

\* the identity of an entity for de-duplication: lowercased, trimmed name and category
Identity(e) == <<Strip(Lower(e.name)), e.category>>

ContentDone == entry = "process_complete_content" /\ pc = "done"

\* an exception was caught by the handler of process_complete_content
Caught == exc # None

\* C1: process_complete_content always hands a ContentAnalysis to its caller,
\* never an exception; when an exception was caught during orchestration the
\* record carries confidence_scores with overall = 0.0 and the error message.
C1_AlwaysReturnsContentAnalysis ==
    ContentDone =>
        /\ result.kind = "returned"
        /\ Caught =>
              /\ result.value.confidence_scores["overall"] = PyFloat(0)
              /\ result.value.confidence_scores["error"] = PyStr(exc.msg)

\* C2: when process_video raises for a supplied video, the audio-from-video
\* transcription is still attempted and the analyses that completed are in
\* the ContentAnalysis that is returned.
C2_VideoFailureDoesNotStopAudio ==
    (ContentDone /\ pv # None /\ pv.status = "raised") =>
        /\ InSeq("process_video_audio", calls)
        /\ result.kind = "returned"
        /\ result.value.text_analysis = text_analysis
        /\ result.value.audio_analysis = audio_analysis

\* C3: the list handed to the entity merge holds what every completed
\* sub-pipeline extracted: the entities of the text analysis and the objects
\* the video analysis detected.
C3_MergeInputCoversAllModalities ==
    (entry = "process_complete_content" /\ pc = "pcc_integrate") =>
        /\ text_analysis # None =>
              \A e \in Range(text_analysis.extracted_entities) : InSeq(e, all_entities)
        /\ video_analysis # None =>
              \A o \in video_analysis.detected_objects :
                 \E i \in 1..Len(all_entities) :
                    Lower(all_entities[i].name) = Lower(o)

MergeDone == entry = "_merge_entities" /\ pc = "done"

\* C4: _merge_entities(L) has no two entries of the same (lowercased,
\* trimmed name, category), and merging its result again changes nothing,
\* element for element and in the same order.
C4_MergeUniqueAndIdempotent ==
    MergeDone =>
        /\ \A i, j \in 1..Len(unique_entities) :
              Identity(unique_entities[i]) = Identity(unique_entities[j]) => i = j
        /\ _merge_entities(unique_entities) = unique_entities

\* C4 witness: a merge that collapsed a group and returned two entities of
\* different identity and equal confidence
C4_Witness ==
    /\ MergeDone
    /\ Len(unique_entities) < Len(all_entities)
    /\ \E i \in 1..(Len(unique_entities) - 1) :
          unique_entities[i].confidence = unique_entities[i + 1].confidence

\* the members of `entities` whose identity is `key`, in order
Members(entities, key) == SelectSeq(entities, LAMBDA e : Identity(e) = key)

Confidences(group) == [i \in 1..Len(group) |-> group[i].confidence]

\* min(1.0, average x min(1.2, 1.0 + 0.1 x (N - 1)))
BoostedAverage(group) ==
    Min(ONE, Div(SumSeq(Confidences(group)) * Min(12, 10 + (Len(group) - 1)),
                 10 * Len(group)))

\* the first three non-empty contexts joined with "; "
FirstThreeContexts(group) ==
    LET nonempty == SelectSeq([i \in 1..Len(group) |-> group[i].context],
                              LAMBDA c : Len(c) > 0)
    IN  Join(Chars("; "), SubSeq(nonempty, 1, Min(3, Len(nonempty))))

\* C5: a group of N > 1 entities of one identity is merged into one entity
\* with the name and source of a highest-confidence member, confidence
\* min(1.0, average x min(1.2, 1.0 + 0.1 x (N - 1))) and the first three
\* non-empty contexts joined with "; "; ("Apple", BRAND, 0.9) and
\* ("apple", BRAND, 0.7) give "Apple" with confidence 0.88.
C5_GroupMerge ==
    MergeDone =>
        /\ \A k \in {Identity(e) : e \in Range(all_entities)} :
              Len(Members(all_entities, k)) > 1 =>
                 /\ Len(Members(unique_entities, k)) = 1
                 /\ LET group == Members(all_entities, k)
                        merged == Members(unique_entities, k)[1]
                    IN  /\ \E m \in Range(group) :
                              /\ \A x \in Range(group) : x.confidence <= m.confidence
                              /\ merged.name = m.name
                              /\ merged.source = m.source
                        /\ merged.category = k[2]
                        /\ merged.confidence = BoostedAverage(group)
                        /\ merged.context = FirstThreeContexts(group)
        /\ ( /\ Len(all_entities) = 2
             /\ all_entities[1].name = Chars("Apple")
             /\ all_entities[1].confidence = Hundredth(90)
             /\ all_entities[2].name = Chars("apple")
             /\ all_entities[2].category = all_entities[1].category
             /\ all_entities[2].confidence = Hundredth(70) )
           => /\ Len(unique_entities) = 1
              /\ unique_entities[1].name = Chars("Apple")
              /\ unique_entities[1].confidence = Hundredth(88)

\* C5 witness: a group of four entities of one identity, all with a context,
\* has been merged (boost capped at 1.2, context cut to three)
C5_Witness ==
    /\ MergeDone
    /\ Len(all_entities) = 4
    /\ Len(unique_entities) = 1
    /\ \A i \in 1..4 : all_entities[i].context # <<>>
    /\ unique_entities[1].confidence < ONE
    /\ \E i \in 1..4 : all_entities[i].confidence # unique_entities[1].confidence

IntegrateReturned ==
    /\ entry = "_integrate_confidence_scores"
    /\ pc = "done"
    /\ result.kind = "returned"

\* the self-reported overall confidence of each modality whose analysis is present
ModalityScores ==
    (IF text_analysis # None /\ "confidence_scores" \in DOMAIN text_analysis
     THEN "text" :> text_analysis.confidence_scores["overall"] ELSE EmptyDict)
    @@ (IF video_analysis # None
        THEN "video" :> video_analysis.confidence_scores["overall"] ELSE EmptyDict)
    @@ (IF audio_analysis # None
        THEN "audio" :> audio_analysis.confidence ELSE EmptyDict)

ProcessVideoReturned ==
    /\ entry = "process_video"
    /\ pc = "done"
    /\ result.kind = "returned"

\* the five components the video-level overall is a weighted sum of
VideoComponentScores ==
    [k \in DOMAIN result.value.confidence_scores \cap
           {"frame_extraction", "analysis_success_rate", "object_detection",
            "text_recognition", "scene_analysis"} |->
        result.value.confidence_scores[k]]

\* C6: the overall written by _integrate_confidence_scores lies in [0, 1], is
\* 0.0 when every present modality score is 0 and 1.0 when every present
\* modality score is 1; the same holds for the overall process_video computes
\* from its five components.
C6_OverallInUnitInterval ==
    /\ IntegrateReturned =>
          LET overall == result.value["overall"]
              scores == ModalityScores
          IN  /\ 0 <= overall /\ overall <= ONE
              /\ (\A m \in DOMAIN scores : scores[m] = 0) => overall = 0
              /\ (DOMAIN scores # {} /\ \A m \in DOMAIN scores : scores[m] = ONE)
                    => overall = ONE
    /\ ProcessVideoReturned =>
          LET overall == result.value.confidence_scores["overall"]
              scores == VideoComponentScores
          IN  /\ 0 <= overall /\ overall <= ONE
              /\ (\A k \in DOMAIN scores : scores[k] = 0) => overall = 0
              /\ (\A k \in DOMAIN scores : scores[k] = ONE) => overall = ONE

\* C6 witness: confidence integration over a video and an audio analysis that
\* both report 1.0 has written its overall
C6_Witness ==
    /\ IntegrateReturned
    /\ DOMAIN ModalityScores = {"video", "audio"}
    /\ \A m \in DOMAIN ModalityScores : ModalityScores[m] = ONE
    /\ result.value["overall"] = ONE

\* the modalities whose analysis is present
PresentModalities ==
    {m \in {"text", "video", "audio"} :
        \/ m = "text" /\ text_analysis # None
        \/ m = "video" /\ video_analysis # None
        \/ m = "audio" /\ audio_analysis # None}

\* the weights of the specification, in hundredths
W == [text |-> 40, video |-> 35, audio |-> 25]

RECURSIVE SumOver(_, _)
SumOver(f, keys) ==
    IF keys = {} THEN 0
    ELSE LET k == CHOOSE x \in keys : TRUE IN f[k] + SumOver(f, keys \ {k})

\* C7: for every set P of present modalities, text included, the overall is
\* the sum over P of score x weight / (sum of the weights of P) with weights
\* text 0.4, video 0.35, audio 0.25, and 0.0 when P is empty.
C7_OverallIsNormalisedWeightedAverage ==
    (entry = "_integrate_confidence_scores" /\ pc = "done") =>
        /\ result.kind = "returned"
        /\ LET P == PresentModalities
           IN  result.value["overall"] =
                  IF P = {} THEN 0
                  ELSE Div(SumOver([m \in P |-> ModalityScores[m] * W[m]], P),
                           SumOver([m \in P |-> W[m]], P))

\* C8: the two audio routes exclude each other: with a video supplied the
\* transcription comes from the video's audio track and the separate audio
\* file is never processed; the standalone audio file is processed, exactly
\* once, only when no video is supplied.
C8_AudioRoutesExclusive ==
    entry = "process_complete_content" =>
        /\ video_file # None => ~InSeq("process_audio", calls)
        /\ Count("process_audio", calls) <= 1
        /\ InSeq("process_audio", calls) => (video_file = None /\ audio_file # None)
        /\ ~(InSeq("process_audio", calls) /\ InSeq("process_video_audio", calls))
        /\ (video_file # None /\ audio_analysis # None)
              => InSeq("process_video_audio", calls)
        /\ (pc = "done" /\ video_file = None /\ audio_file # None)
              => Count("process_audio", calls) = 1

\* C8 witness: a content item with both a video and a separate audio file
\* was processed to the end and has a transcription
C8_Witness ==
    /\ ContentDone
    /\ video_file # None
    /\ audio_file # None
    /\ audio_analysis # None

\* the temporary files of the given suffix that exist
TempFilesOnDisk(suffix) == {f \in disk : f.suffix = suffix}

\* C9: when process_video returns or raises, every temporary frame file
\* extract_frames created has been deleted.
C9_FrameFilesDeleted ==
    (entry = "process_video" /\ pc = "done") => TempFilesOnDisk(".jpg") = {}

\* C10: when process_video_audio returns, the temporary audio file created
\* by extract_audio_from_video no longer exists.
C10_AudioTempFileDeleted ==
    (entry = "process_video_audio" /\ pc = "done") => TempFilesOnDisk(".wav") = {}

\* a processor operation called on its own has ended
ProcessorDone ==
    /\ entry \in {"extract_frames", "process_video", "extract_audio_from_video",
                  "process_video_audio", "transcribe_audio", "process_audio_file"}
    /\ pc = "done"

\* the media file handed to the operation does not exist
MissingInput ==
    IF entry \in {"transcribe_audio", "process_audio_file"}
    THEN ~audio_file.exists
    ELSE ~video_file.exists

\* C11: every processor operation handed a missing input file raises NotFound
\* (FileNotFoundError) to its caller; none turns the missing file into a
\* placeholder result.
C11_MissingFileRaisesNotFound ==
    (ProcessorDone /\ MissingInput) =>
        /\ result.kind = "raised"
        /\ result.exc.type = "FileNotFoundError"

TranscribeDone == entry = "transcribe_audio" /\ pc = "done"

\* Python's "needle in text"
Contains(text, needle) ==
    \E i \in 0..(Len(text) - Len(needle)) :
        SubSeq(text, i + 1, i + Len(needle)) = needle

\* the transcriptions the backend can deliver for a file it accepts
BackendTranscripts == {r.text : r \in WhisperResponses}

ProcessVideoDone == entry = "process_video" /\ pc = "done"

\* the VideoAnalysis that reports that no frame could be extracted
IsNoFramesResult(r) ==
    /\ r.kind = "returned"
    /\ r.value.frame_count = 0
    /\ r.value.confidence_scores["overall"] = 0
    /\ \A k \in DOMAIN r.value.confidence_scores : r.value.confidence_scores[k] = 0
    /\ r.value.scene_descriptions = <<Chars("No frames could be extracted")>>

\* the decoder raised while reading a frame
DecoderFailed == result.kind = "raised" /\ result.exc.msg = MsgDecodeError

\* the decoder opened the video and, without failing, read no frame from it
OpenedAndReadZeroFrames ==
    /\ video_file.exists
    /\ video_file.openable
    /\ ef.frame_count = 0
    /\ ~DecoderFailed

\* C13: process_video returns the VideoAnalysis with frame_count 0, overall
\* 0.0, every component 0.0 and the description "No frames could be
\* extracted" exactly when the decoder opens the video but reads zero frames;
\* when the decoder cannot open the file it raises ValueError instead.
C13_NoFramesResultIffZeroFramesRead ==
    ProcessVideoDone =>
        /\ IsNoFramesResult(result) <=> OpenedAndReadZeroFrames
        /\ (video_file.exists /\ ~video_file.openable) =>
              /\ result.kind = "raised"
              /\ result.exc.type = "ValueError"

\* extract_frames opened the video and returned an empty list: the decoder
\* read zero frames, or no sampled frame's image write succeeded
OpenedAndExtractedNoFrame ==
    /\ video_file.exists
    /\ video_file.openable
    /\ ~DecoderFailed
    /\ (ef.frame_count = 0 \/ ef.extracted_count = 0)

\* C13 (amended): process_video returns the no-frames VideoAnalysis exactly
\* when the decoder opens the video and extract_frames yields no frame, that
\* is when zero frames are read or no sampled frame's image write succeeds;
\* when the decoder cannot open the file it raises ValueError instead.
C13_NoFramesResultIffNoFrameExtracted ==
    ProcessVideoDone =>
        /\ IsNoFramesResult(result) <=> OpenedAndExtractedNoFrame
        /\ (video_file.exists /\ ~video_file.openable) =>
              /\ result.kind = "raised"
              /\ result.exc.type = "ValueError"

\* C13 witness: process_video returned the no-frames result for a video whose
\* frames were read but not written
C13_Witness ==
    /\ ProcessVideoDone
    /\ IsNoFramesResult(result)
    /\ ef.frame_count > 0

ExtractFramesReturned ==
    /\ entry = "extract_frames"
    /\ pc = "done"
    /\ result.kind = "returned"

\* every image write extract_frames attempted succeeded: each temporary file
\* it created backs a returned frame
AllWritesSucceeded == Cardinality(created) = Len(result.value)

\* C14: extract_frames returns at most N frames, at least one frame when the
\* video has a readable frame and its image writes succeed, and exactly N
\* frames when T exceeds N x max(1, fps) and every read and write succeeds.
C14_FrameCount ==
    ExtractFramesReturned =>
        LET N == ef.max_frames
            T == video_file.total_frames
            fps == video_file.fps
            frames == result.value
        IN  /\ N >= 1
            /\ Len(frames) <= N
            /\ (T >= 1 /\ AllWritesSucceeded) => Len(frames) >= 1
            /\ (T > N * Max(1, fps) /\ AllWritesSucceeded) => Len(frames) = N

\* C14 witness: a video longer than N x max(1, fps), sampled with a
\* recomputed step, gave exactly N frames
C14_Witness ==
    /\ ExtractFramesReturned
    /\ AllWritesSucceeded
    /\ video_file.fps >= 1
    /\ video_file.total_frames > ef.max_frames * video_file.fps
    /\ ef.frame_step > video_file.fps
    /\ ef.max_frames >= 2
    /\ Len(result.value) = ef.max_frames

\* the frame index of a sampled frame: timestamp x fps
FrameIndex(frame) == frame.timestamp[1]

\* C15: the frames extract_frames samples are at the evenly spaced frame
\* indices 0, s, 2s, ... for one step s, and they span the whole video: fewer
\* than two steps of video follow the last sampled frame.
C15_EvenSpacingOverFullDuration ==
    (ExtractFramesReturned /\ AllWritesSucceeded /\ video_file.fps > 0
       /\ result.value # <<>>) =>
        LET frames == result.value
            T == video_file.total_frames
        IN  \E s \in 1..T :
               /\ \A k \in 1..Len(frames) : FrameIndex(frames[k]) = (k - 1) * s
               /\ (T - 1) - FrameIndex(frames[Len(frames)]) < 2 * s

\* a hashtag list written back as '#tag' text, one tag after the other
RECURSIVE RenderHashtags(_)
RenderHashtags(tags) ==
    IF tags = <<>> THEN <<>>
    ELSE <<"#">> \o Head(tags)
         \o (IF Tail(tags) = <<>> THEN <<>> ELSE <<" ">>)
         \o RenderHashtags(Tail(tags))

\* the '#word' matches of a text in text order, each in lower case
LoweredHashtags(text) ==
    LET found == FindHashtags(text) IN [i \in 1..Len(found) |-> Lower(found[i])]

\* the positions of a list holding the first occurrence of their element
FirstOccurrences(s) == {i \in 1..Len(s) : \A j \in 1..(i - 1) : s[j] # s[i]}

ExtractHashtagsReturned == entry = "extract_hashtags" /\ pc = "done"

\* C16: extract_hashtags returns the lower-cased hashtags of the text with
\* duplicates collapsed in first-seen order; the result is the same for the
\* upper-cased text; and extracting again from the result written as '#tag'
\* text gives the same list
C16_HashtagsLoweredUniqueCaseInsensitive ==
    ExtractHashtagsReturned =>
        LET tags == result.value
            all == LoweredHashtags(text_content)
            firsts == FirstOccurrences(all)
        IN  /\ Len(tags) = Cardinality(firsts)
            /\ \A k \in 1..Len(tags) :
                  \E i \in firsts :
                      /\ all[i] = tags[k]
                      /\ Cardinality({j \in firsts : j < i}) = k - 1
            /\ extract_hashtags(Upper(text_content)) = tags
            /\ extract_hashtags(RenderHashtags(tags)) = tags

CategorizeReturned == entry = "categorize_hashtags" /\ pc = "done"

\* the table positions of the categories a hashtag matches
MatchingCategories(h) ==
    {i \in 1..Len(hashtag_categories) : MatchesCategory(h, hashtag_categories[i])}

\* the buckets of a categorize_hashtags result that list a hashtag
BucketsOf(h, categories) == {b \in DOMAIN categories : h \in Range(categories[b])}

\* C17: every hashtag is filed under the first category, in table order, that
\* it matches, and only there; it is under "other" exactly when it matches no
\* category; so every hashtag is in exactly one bucket
C17_FirstMatchingCategoryOnly ==
    CategorizeReturned =>
        \A k \in 1..Len(args.hashtags) :
            LET h == args.hashtags[k]
                M == MatchingCategories(h)
            IN  BucketsOf(h, result.value) =
                    IF M = {} THEN {"other"} ELSE {hashtag_categories[CHOOSE i \in M : \A j \in M : i <= j].name}

\* C17 as amended: every hashtag is filed under every category that it
\* matches; it is under "other" exactly when it matches no category; so
\* every hashtag is in at least one bucket
C17_EveryMatchingCategory ==
    CategorizeReturned =>
        \A k \in 1..Len(args.hashtags) :
            LET h == args.hashtags[k]
                M == MatchingCategories(h)
            IN  /\ BucketsOf(h, result.value) =
                      IF M = {} THEN {"other"}
                      ELSE {hashtag_categories[i].name : i \in M}
                /\ BucketsOf(h, result.value) # {}

\* a list with a hashtag filed under two categories, one under "food" and
\* one under "other"
C17_Witness ==
    /\ CategorizeReturned
    /\ \E k \in 1..Len(args.hashtags) :
          BucketsOf(args.hashtags[k], result.value) = {"art", "music"}
    /\ \E k \in 1..Len(args.hashtags) :
          BucketsOf(args.hashtags[k], result.value) = {"food"}
    /\ \E k \in 1..Len(args.hashtags) :
          BucketsOf(args.hashtags[k], result.value) = {"other"}

\* the analysis of a frame is the placeholder of a failed model call
AnalysisFailed(analysis) ==
    LET prefix == Chars("Analysis failed: ")
    IN  /\ Len(analysis.scene_description) >= Len(prefix)
        /\ SubSeq(analysis.scene_description, 1, Len(prefix)) = prefix

\* C18: when process_video returns, every extracted frame has been analysed;
\* the returned confidence_scores hold under frame_i the confidence of the
\* analysis of frame i, which is 0.0 when that analysis failed, whatever
\* happened to the other frames
C18_FailedFrameScoresZeroOthersKept ==
    (ProcessVideoReturned /\ pv.frames # <<>>) =>
        /\ Len(pv.frame_analysis_results) = Len(pv.frames)
        /\ result.value.frame_count = Len(pv.frames)
        /\ \A i \in 0..(Len(pv.frames) - 1) :
              /\ FrameKey(i) \in DOMAIN result.value.confidence_scores
              /\ result.value.confidence_scores[FrameKey(i)] =
                     pv.frame_analysis_results[i + 1].confidence
              /\ AnalysisFailed(pv.frame_analysis_results[i + 1]) =>
                     result.value.confidence_scores[FrameKey(i)] = 0

\* a failed frame followed by a frame that was analysed with its own score
C18_Witness ==
    /\ ProcessVideoReturned
    /\ \E i, j \in 0..(Len(pv.frames) - 1) :
          /\ i < j
          /\ Len(pv.frame_analysis_results) = Len(pv.frames)
          /\ AnalysisFailed(pv.frame_analysis_results[i + 1])
          /\ ~AnalysisFailed(pv.frame_analysis_results[j + 1])
          /\ result.value.confidence_scores[FrameKey(i)] = 0
          /\ result.value.confidence_scores[FrameKey(j)] > 0

\* the position in `entities` of the first member of the group of identity `key`
FirstMember(entities, key) ==
    CHOOSE i \in 1..Len(entities) :
        /\ Identity(entities[i]) = key
        /\ \A j \in 1..(i - 1) : Identity(entities[j]) # key

\* C19: the list _merge_entities returns is in non-increasing order of
\* confidence, merged and pass-through entities alike
C19_MergedListSortedByConfidence ==
    MergeDone =>
        \A i, j \in 1..Len(unique_entities) :
            i < j => unique_entities[i].confidence >= unique_entities[j].confidence

\* a merged entity and a pass-through entity that the sort put in the
\* opposite order of their groups' first appearance
C19_Witness ==
    /\ MergeDone
    /\ \E i, j \in 1..Len(unique_entities) :
          LET a == unique_entities[i]
              b == unique_entities[j]
          IN  /\ i < j
              /\ a.confidence > b.confidence
              /\ FirstMember(all_entities, Identity(b))
                    < FirstMember(all_entities, Identity(a))
              /\ {Len(Members(all_entities, Identity(a))),
                   Len(Members(all_entities, Identity(b)))} = {1, 2}

ParseReturned == entry = "_parse_gpt_entity_response" /\ pc = "done"

\* an item with name, category and confidence, one of the six categories
\* (in any case) and a confidence in (0.6, 1.0]
ItemToKeep(item) ==
    /\ {"name", "category", "confidence"} \subseteq DOMAIN item
    /\ item["category"].type = "string"
    /\ Lower(item["category"].value) \in {Chars(c) : c \in EntityCategory}
    /\ FloatOf(item["confidence"]).kind = "ok"
    /\ FloatOf(item["confidence"]).value > Tenth(6)
    /\ FloatOf(item["confidence"]).value <= ONE

\* C20: the entities returned are those of the items that have name,
\* category and confidence, a known category and a confidence in (0.6, 1.0],
\* in response order; every other item is dropped and nothing is raised
C20_KeepsExactlyTheValidItems ==
    ParseReturned =>
        LET kept == SelectSeq(args.entity_data, ItemToKeep)
        IN  /\ result.kind = "returned"
            /\ Len(result.value) = Len(kept)
            /\ \A k \in 1..Len(kept) :
                  k <= Len(result.value) =>
                      /\ result.value[k].name = Strip(kept[k]["name"].value)
                      /\ result.value[k].confidence = FloatOf(kept[k]["confidence"]).value

ParseTextDone == entry = "_parse_gpt_entity_response_text" /\ pc = "done"

ExtractEntitiesDone == entry = "extract_entities_with_gpt" /\ pc = "done"

\* the response text has no part from a "[" to a later "]", or that part is
\* not a JSON document
NotAJsonArray(response_text) ==
    LET json_start == Find(response_text, "[")
        json_end == RFind(response_text, "]") + 1
    IN  \/ ~(json_start >= 0 /\ json_end > json_start)
        \/ JsonLoads(SubSeq(response_text, json_start + 1, json_end)).kind
               = "JSONDecodeError"

\* C21: a response that cannot be decoded as a JSON array, one without any
\* bracketed part included, is parsed by the line-by-line fallback, whose
\* outcome is the outcome of _parse_gpt_entity_response; and
\* extract_entities_with_gpt returns the empty list when the backend call fails
C21_FallbackOnEveryUndecodableResponse ==
    /\ (ParseTextDone /\ NotAJsonArray(args.response_text)) =>
           result = _fallback_entity_extraction(
                        args.response_text, args.source, args.original_text)
    /\ (ExtractEntitiesDone /\ args.backend = BackendError) =>
           result = Returned(<<>>)

ConsistencyReturned == entry = "_calculate_cross_modal_consistency" /\ pc = "done"

\* the lowercased names of the text entities
TextEntityNames == {Lower(e.name) : e \in Range(text_analysis.extracted_entities)}

\* the lowercased detected objects of the video
VideoObjectNames == {Lower(o) : o \in video_analysis.detected_objects}

\* C22: with text and video both present, text_video_consistency is
\* |E n O| / |E u O| for the lowercased entity names E and the lowercased
\* detected objects O, and 0.5 when E or O is empty; for E = {pizza} and
\* O = {pizza, table} it is 0.5; without text or without video the key is absent
C22_TextVideoJaccard ==
    ConsistencyReturned =>
        IF text_analysis # None /\ video_analysis # None
        THEN /\ "text_video_consistency" \in DOMAIN result.value
             /\ LET E == TextEntityNames
                    O == VideoObjectNames
                    score == result.value["text_video_consistency"]
                IN  /\ (E = {} \/ O = {}) => score = Div(ONE, 2)
                    /\ (E # {} /\ O # {}) =>
                          score * Cardinality(E \cup O) = ONE * Cardinality(E \cap O)
                    /\ (E = {Chars("pizza")} /\ O = {Chars("pizza"), Chars("table")})
                          => score = Tenth(5)
        ELSE "text_video_consistency" \notin DOMAIN result.value

\* entity names {apple, pizza} against the objects {pizza, table}: one of
\* three names shared
C22_Witness ==
    /\ ConsistencyReturned
    /\ text_analysis # None /\ video_analysis # None
    /\ TextEntityNames = {Chars("apple"), Chars("pizza")}
    /\ VideoObjectNames = {Chars("pizza"), Chars("table")}
    /\ 3 * result.value["text_video_consistency"] = ONE

\* the transcript, trimmed, is longer than 10 characters
LongTranscript == Len(Strip(audio_analysis.transcript)) > 10

\* the video has a detected object or a text overlay
VideoHasContent ==
    video_analysis.detected_objects # {} \/ video_analysis.text_overlays # {}

\* C23: with video and audio both present, video_audio_consistency is 0.8
\* when the video has an object or overlay and the trimmed transcript is
\* longer than 10 characters, 0.6 when exactly one of the two holds and 0.4
\* when neither does
C23_VideoAudioTiers ==
    (ConsistencyReturned /\ video_analysis # None /\ audio_analysis # None) =>
        /\ "video_audio_consistency" \in DOMAIN result.value
        /\ result.value["video_audio_consistency"] =
              IF VideoHasContent /\ LongTranscript THEN Tenth(8)
              ELSE IF VideoHasContent # LongTranscript THEN Tenth(6)
              ELSE Tenth(4)

\* a video without object or overlay next to a long transcript: the middle tier
C23_Witness ==
    /\ ConsistencyReturned
    /\ video_analysis # None /\ audio_analysis # None
    /\ ~VideoHasContent /\ LongTranscript
    /\ audio_analysis.confidence > 0
    /\ result.value["video_audio_consistency"] = Tenth(6)

\* transcribe_audio returned a transcription of the backend, not the
\* placeholder of its exception handler
TranscribeSucceeded ==
    /\ TranscribeDone
    /\ result.kind = "returned"
    /\ ~Contains(result.value.transcript, Chars("Transcription failed: "))

\* C24: on success the confidence is clamp((a + 5) / 5, 0, 1) for the mean a
\* of the segments' average log-probabilities (kept here in tenths) when
\* there is a segment, and otherwise 0.8 for a trimmed transcript longer
\* than 10 characters and 0.5 for a shorter one; it lies in [0, 1], is 0
\* for a <= -5 and 1 for a >= 0
C24_ConfidenceFromLogProbs ==
    TranscribeSucceeded =>
        LET segments == result.value.segments
            n == Len(segments)
            total == SumSeq(segments)
            confidence == result.value.confidence
        IN  /\ 0 <= confidence /\ confidence <= ONE
            /\ n > 0 =>
                  IF total <= -50 * n THEN confidence = 0
                  ELSE IF total >= 0 THEN confidence = ONE
                  ELSE confidence * 50 * n = ONE * (total + 50 * n)
            /\ n = 0 =>
                  confidence = IF Len(Strip(result.value.transcript)) > 10
                               THEN Tenth(8) ELSE Tenth(5)

\* two segments whose mean log-probability lies strictly between -5 and 0
C24_Witness ==
    /\ TranscribeSucceeded
    /\ Len(result.value.segments) = 2
    /\ result.value.segments[1] # result.value.segments[2]
    /\ 0 < result.value.confidence /\ result.value.confidence < ONE

\* C25: when process_audio_file returns after transcoding a file of an
\* unsupported format, the temporary file _convert_audio_format created no
\* longer exists, whether the transcoding or the transcription failed or not
C25_ConvertedFileDeleted ==
    (entry = "process_audio_file" /\ pc = "done" /\ ~audio_file.supported) =>
        \A f \in created : f.suffix = ".wav" => f \notin disk

\* the audio analysis is the placeholder of a failed transcription
AudioIsPlaceholder ==
    /\ audio_analysis # None
    /\ audio_analysis.confidence = 0
    /\ \/ Contains(audio_analysis.transcript, Chars("Transcription failed: "))
       \/ Contains(audio_analysis.transcript, Chars("Audio processing failed: "))

\* the video analysis is the result of a video no frame was extracted from
VideoIsPlaceholder == video_analysis # None /\ video_analysis.frame_count = 0

\* the overall _integrate_confidence_scores gives the same analyses
OverallOf(ta, va, aa) == _integrate_confidence_scores(ta, va, aa).value["overall"]

\* C26: a failure placeholder counts as a present modality: a failed
\* transcription keeps weight 0.25 and a zero-frame video keeps weight 0.35
\* in the normalisation, so that next to another modality of positive score
\* the overall is strictly lower than it is without the failed modality
C26_PlaceholderKeepsItsWeight ==
    IntegrateReturned =>
        /\ (AudioIsPlaceholder /\ video_analysis # None
                /\ video_analysis.confidence_scores["overall"] > 0) =>
              /\ result.value["overall"] * (35 + 25)
                    = video_analysis.confidence_scores["overall"] * 35
              /\ result.value["overall"] < OverallOf(text_analysis, video_analysis, None)
        /\ (VideoIsPlaceholder /\ audio_analysis # None
                /\ audio_analysis.confidence > 0) =>
              /\ result.value["overall"] * (35 + 25) = audio_analysis.confidence * 25
              /\ result.value["overall"] < OverallOf(text_analysis, None, audio_analysis)

\* a failed transcription next to a video that reports a positive overall
C26_Witness ==
    /\ IntegrateReturned
    /\ AudioIsPlaceholder
    /\ video_analysis # None
    /\ video_analysis.confidence_scores["overall"] = ONE
    /\ result.value["overall"] < ONE
    /\ result.value["overall"] > 0

\* the share of the text keywords that are words of the lowercased transcript
KeywordOverlapHolds(score) ==
    LET K == Range(text_analysis.keywords)
        A == Range(Split(Lower(audio_analysis.transcript)))
    IN  IF K = {} THEN score = Div(ONE, 2)
        ELSE score * Cardinality(K) = ONE * Cardinality(K \cap A)

\* C27: a failed transcription counts as audio with content: when the audio
\* analysis is a failure placeholder, video_audio_consistency is 0.8 or 0.6,
\* never 0.4, and text_audio_consistency is never 0.3, the value of a thin
\* transcript
C27_PlaceholderNeverThin ==
    (ConsistencyReturned /\ AudioIsPlaceholder) =>
        /\ video_analysis # None =>
              result.value["video_audio_consistency"] \in {Tenth(8), Tenth(6)}
        /\ text_analysis # None =>
              result.value["text_audio_consistency"] # Tenth(3)

\* C27 as amended: when the audio analysis is a failure placeholder,
\* video_audio_consistency is 0.8 or 0.6, never 0.4, and
\* text_audio_consistency is the keyword-overlap score of a transcript with
\* content (the share of the text keywords found among the transcript's
\* words, 0.5 without keywords), never the outcome of the thin-transcript rule
C27_PlaceholderScoredAsContent ==
    (ConsistencyReturned /\ AudioIsPlaceholder) =>
        /\ video_analysis # None =>
              result.value["video_audio_consistency"] =
                  IF VideoHasContent THEN Tenth(8) ELSE Tenth(6)
        /\ text_analysis # None =>
              KeywordOverlapHolds(result.value["text_audio_consistency"])

\* a failure placeholder next to a video without content and a text whose
\* keywords share one word with the failure message
C27_Witness ==
    /\ ConsistencyReturned
    /\ AudioIsPlaceholder
    /\ video_analysis # None /\ ~VideoHasContent
    /\ text_analysis # None
    /\ result.value["video_audio_consistency"] = Tenth(6)
    /\ Cardinality(Range(text_analysis.keywords)
                   \cap Range(Split(Lower(audio_analysis.transcript)))) = 1

\* the (lowercased, trimmed name, category) keys of a list of entities
Identities(entities) == {Identity(e) : e \in Range(entities)}

\* C28: the keys of the list _merge_entities returns are the keys of its
\* input, each key has exactly one entity in the output, and an entity whose
\* key occurs once in the input is in the output as it was (name, category,
\* confidence, source and context)
C28_MergeKeepsIdentities ==
    MergeDone =>
        /\ Identities(unique_entities) = Identities(all_entities)
        /\ Len(unique_entities) = Cardinality(Identities(all_entities))
        /\ \A k \in Identities(all_entities) :
              /\ Len(Members(unique_entities, k)) = 1
              /\ Len(Members(all_entities, k)) = 1 =>
                    Members(unique_entities, k) = Members(all_entities, k)

\* a merge of a group of two next to a pass-through entity whose name is not
\* in its lowercased, trimmed form
C28_Witness ==
    /\ MergeDone
    /\ Len(all_entities) = 3
    /\ Len(unique_entities) = 2
    /\ \E i \in 1..2 :
          /\ Len(Members(all_entities, Identity(unique_entities[i]))) = 1
          /\ unique_entities[i].name # Strip(Lower(unique_entities[i].name))
          /\ unique_entities[i] \in Range(all_entities)

OnlyTextEntitiesCollected ==
    all_entities = IF text_analysis = None THEN <<>>
                   ELSE text_analysis.extracted_entities

====
